---- MODULE Spec2Model ----
(***************************************************************************)
(* TrueNote: the pipeline orchestrator run() (prediction_pipeline.py),     *)
(* the manifest model (contracts/manifest.py), manifest persistence        *)
(* (pipeline/io.py) and the per-chunk retry loop of the OpenAI             *)
(* transcription adapter (adapters/openai_transcription.py).               *)
(*                                                                         *)
(* Python's None is the empty sequence <<>> and a present value v is <<v>>.*)
(* Time is counted in half milliseconds, so that round() in                *)
(* compute_duration_ms has ties to resolve.                                *)
(* Spec drives run() with reliable storage: every write of the manifest    *)
(* succeeds; collaborators may fail in every way their code allows.        *)
(* SpecRecord drives one StepRecord through arbitrary start()/finish()     *)
(* calls.  SpecStitch applies the adapter's transcribe() to chunk          *)
(* responses drawn from a small set, and SpecSkip applies                  *)
(* should_skip_step to a manifest and arguments drawn from small sets.     *)
(* SpecValidate does the same for validate_artifact_refs, SpecFromDict for *)
(* from_dict over stored documents of every shape and SpecCollect for      *)
(* chunk_audio over the directories a chunker can leave behind.            *)
(* SpecPersist follows persist_manifest and Manifest.write_json statement  *)
(* by statement with any clock reading at each touch; SpecRoundTrip builds *)
(* a manifest through its operations, writes it and reads it back.         *)
(* SpecFault is run() on storage where a write of the manifest can fail.   *)
(* SpecLanguage is transcribe() on answers that report languages, for an   *)
(* adapter built with or without a language.                               *)
(* SpecTerminate is Spec with weak fairness of the statements of a run in  *)
(* progress, for termination.                                              *)
(***************************************************************************)
EXTENDS Integers, Sequences, FiniteSets, TLC

VARIABLES
    runNo,        \* number of run() invocations made so far
    config,       \* PipelineConfig fields and the adapter's retry budget
    pc,           \* position of the current run()
    cur,          \* index in StepOrder of the step run() is at
    manifest,     \* the Manifest object of the current run()
    exc,          \* exception caught by the current step's except clause
    raised,       \* exception that left run()
    chunks,       \* local variable chunks of run(): the ChunksArtifact count
    disk,         \* content of manifest.json in the output directory
    fsChunks,     \* number of files in the chunks directory
    clock,        \* reading of now_unix_s(), in half milliseconds
    calls,        \* invocations of each step's collaborator in the current run
    execRun,      \* steps whose body was executed in the current run
    started,      \* steps started by the current run, in order
    doneAtInvoke, \* steps manifest.json recorded as success when run() was invoked
    chunk_index,  \* adapter: index of the chunk being transcribed
    attempt,      \* adapter: attempt number for the current chunk
    last_error,   \* adapter: last_error of _transcribe_chunk_with_retry
    providerCalls,\* adapter: provider calls made for each chunk in this transcribe()
    normalized,   \* adapter: the normalized chunk transcripts obtained so far
    transcript,   \* local variable transcript of run(): the TranscriptArtifact
    lastOutcome,  \* adapter: what the latest provider call produced
    rec,          \* a StepRecord driven directly through its API
    stitchIn,     \* a ChunksArtifact and the provider's answer for each chunk
    stitchOut,    \* what transcribe() made of stitchIn
    compIn,       \* transcribe_chunks called with another provider: its arguments
    compOut,      \* and its outcome
    skipM,        \* a Manifest handed to should_skip_step
    skipArgs,     \* the other arguments of should_skip_step
    skipOut,      \* outcome of the latest should_skip_step call
    skipCalls,    \* number of should_skip_step calls made
    callIn,       \* the arguments of a function called on its own
    callOut,      \* and the outcome of that call
    aw            \* the activation of _atomic_write_bytes or write_json in progress

vars == <<runNo, config, pc, cur, manifest, exc, raised, chunks, disk, fsChunks,
          clock, calls, execRun, started, doneAtInvoke, chunk_index, attempt,
          last_error, providerCalls, normalized, lastOutcome, transcript, rec,
          stitchIn, stitchOut, compIn, compOut, skipM, skipArgs, skipOut, skipCalls,
          callIn, callOut, aw>>

pipeVars == <<runNo, config, pc, cur, manifest, exc, raised, chunks, disk, fsChunks,
              clock, calls, execRun, started, doneAtInvoke, transcript>>

adapterVars == <<chunk_index, attempt, last_error, providerCalls, normalized, lastOutcome>>

skipVars == <<skipM, skipArgs, skipOut, skipCalls>>

callVars == <<callIn, callOut, aw>>

fnVars == <<stitchIn, stitchOut, compIn, compOut, skipM, skipArgs, skipOut, skipCalls,
            callIn, callOut, aw>>

----------------------------------------------------------------------------
(* Bounds *)

MaxRuns == 2
MaxChunks == 2
MaxRetries == 1
MaxClock == 1
MaxAttempts == 2
MaxAt == 3
MaxStitchChunks == 2

----------------------------------------------------------------------------
(* Option values *)

None == <<>>

Some(v) == <<v>>

IsNone(o) == o = <<>>

Val(o) == o[1]

----------------------------------------------------------------------------
(* contracts/errors.py: the exception classes and their base classes *)

ErrorBase ==
    [ PipelineError               |-> "Exception",
      ContractError               |-> "PipelineError",
      ComponentError              |-> "Exception",
      InputValidationError        |-> "ComponentError",
      FfmpegError                 |-> "ComponentError",
      ChunkingError               |-> "ComponentError",
      TranscriptionError          |-> "ComponentError",
      MinutesGenerationError      |-> "ComponentError",
      ExternalToolError           |-> "FfmpegError",
      ProviderError               |-> "TranscriptionError",
      ProviderResponseError       |-> "ProviderError",
      ProviderRetryExhaustedError |-> "ProviderError",
      RuntimeError                |-> "Exception",
      OSError                     |-> "Exception" ]

RECURSIVE IsInstance(_, _)
IsInstance(kind, cls) ==
    \/ kind = cls
    \/ /\ kind \in DOMAIN ErrorBase
       /\ IsInstance(ErrorBase[kind], cls)

\* An exception object: its class, str(exc) as a tuple of words, __cause__.
NewExc(kind, msg) == [type |-> kind, msg |-> msg, cause |-> None]

RaiseFrom(kind, msg, cause) == [type |-> kind, msg |-> msg, cause |-> Some(cause)]

----------------------------------------------------------------------------
(* contracts/manifest.py: StepRecord *)

StepStatus == {"pending", "skipped", "success", "failed"}

NewStepRecord(name) ==
    [ name         |-> name,
      status       |-> "pending",
      started_at_s |-> None,
      ended_at_s   |-> None,
      duration_ms  |-> None,
      attempts     |-> 0,
      meta         |-> {},
      warnings     |-> <<>>,
      error        |-> None,
      error_type   |-> None ]

\* round() of Python: to the nearest integer, ties to the even one.
\* d is a number of half milliseconds, the result a number of milliseconds.
RoundHalfEven(d) ==
    LET q == d \div 2
    IN  IF d % 2 = 0 THEN q
        ELSE IF q % 2 = 0 THEN q ELSE q + 1

Max(a, b) == IF a >= b THEN a ELSE b

ComputeDurationMsNoClampMut(r) ==
    IF IsNone(r.started_at_s) \/ IsNone(r.ended_at_s)
    THEN None
    ELSE Some(RoundHalfEven(Val(r.ended_at_s) - Val(r.started_at_s)))

ComputeDurationMs(r) ==
    IF IsNone(r.started_at_s) \/ IsNone(r.ended_at_s)
    THEN None
    ELSE Some(Max(0, RoundHalfEven(Val(r.ended_at_s) - Val(r.started_at_s))))

StartMutKeepStatus(r, at) ==
    [r EXCEPT !.started_at_s = Some(at),
              !.attempts = @ + 1]

StartNoIncrementMut(r, at) ==
    [r EXCEPT !.started_at_s = Some(at),
              !.status = "pending"]

Start(r, at) ==
    [r EXCEPT !.started_at_s = Some(at),
              !.status = "pending",
              !.attempts = @ + 1]

\* meta is kept as the set of its keys; meta.update(meta) adds keys.
Finish(r, status, at, error, error_type, metaKeys) ==
    LET r1 == [r EXCEPT !.ended_at_s = Some(at),
                        !.status = status,
                        !.error = error,
                        !.error_type = error_type,
                        !.meta = @ \cup metaKeys]
    IN  [r1 EXCEPT !.duration_ms = ComputeDurationMs(r1)]

----------------------------------------------------------------------------
(* contracts/manifest.py: ArtifactRefs and Manifest *)

ArtifactRefNames ==
    { "input_path", "input_sha256",
      "normalized_audio_path", "normalized_audio_sha256",
      "chunks_dir", "chunk_paths", "chunk_seconds",
      "transcript_path", "transcript_sha256", "transcript_text",
      "transcript_provider", "transcript_model", "transcript_language",
      "transcript_chunk_count", "transcript_duration_s",
      "transcript_segments_path", "transcript_segments_count",
      "minutes_md_path", "minutes_sha256", "minutes_docx_path",
      "minutes_docx_sha256", "minutes_markdown", "minutes_model",
      "minutes_prompt_version", "minutes_prompt_path", "minutes_prompt_hash" }

\* Every field defaults to None; chunk_paths defaults to the empty list.
NewArtifactRefs == [n \in ArtifactRefNames |-> None]

NewManifest(run_id) ==
    [ version      |-> "1",
      run_id       |-> Some(run_id),
      created_at_s |-> None,
      updated_at_s |-> None,
      input_sha256 |-> None,
      artifacts    |-> NewArtifactRefs,
      steps        |-> [n \in {} |-> NewStepRecord(n)],
      warnings     |-> <<>>,
      errors       |-> <<>> ]

EnsureStep(m, name) ==
    IF name \in DOMAIN m.steps
    THEN m
    ELSE [m EXCEPT !.steps = (name :> NewStepRecord(name)) @@ @]

Touch(m, at) ==
    [m EXCEPT !.created_at_s = IF IsNone(@) THEN Some(at) ELSE @,
              !.updated_at_s = Some(at)]

\* asdict(): a deep copy of the manifest as nested dicts and lists.
ToDict(m) ==
    [ version      |-> m.version,
      run_id       |-> m.run_id,
      created_at_s |-> m.created_at_s,
      updated_at_s |-> m.updated_at_s,
      input_sha256 |-> m.input_sha256,
      artifacts    |-> [n \in DOMAIN m.artifacts |-> m.artifacts[n]],
      steps        |-> [n \in DOMAIN m.steps |-> m.steps[n]],
      warnings     |-> m.warnings,
      errors       |-> m.errors ]

\* A JSON value as json.loads returns it.  kind is the Python type (dict,
\* list, str, num, null) and value what it holds: the items of a dict, the
\* elements of a list, the characters of a str, <<n>> for the number n and
\* <<>> for null.  truthy is bool(value) of Python.
JValue(kind, value) ==
    [ kind   |-> kind,
      value  |-> value,
      truthy |-> CASE kind = "dict" -> DOMAIN value # {}
                   [] kind = "num"  -> value # <<0>>
                   [] OTHER         -> value # <<>> ]

\* json.dumps of to_dict() followed by json.loads: the document read back
\* from a file that write_json or persist_manifest wrote.
Json(d) ==
    JValue("dict", [ version      |-> d.version,
            run_id       |-> d.run_id,
            created_at_s |-> d.created_at_s,
            updated_at_s |-> d.updated_at_s,
            input_sha256 |-> d.input_sha256,
            artifacts    |-> JValue("dict", d.artifacts),
            steps        |-> JValue("dict", [n \in DOMAIN d.steps |-> JValue("dict", d.steps[n])]),
            warnings     |-> JValue("list", d.warnings),
            errors       |-> JValue("list", d.errors) ])

\* dict.get(key): the value, or None when the key is absent.
Get(data, key) == IF key \in DOMAIN data.value THEN data.value[key] ELSE JValue("null", <<>>)

\* dict.get(key, default) for the fields from_dict passes on as they are.
GetPlain(data, key, default) ==
    IF key \in DOMAIN data.value THEN data.value[key] ELSE default

StepRecordFields == DOMAIN NewStepRecord("")

\* Line 143: ArtifactRefs(**(data.get("artifacts") or {})).
ArtifactsFromDict(a) ==
    IF ~a.truthy
    THEN [error |-> "none", artifacts |-> NewArtifactRefs]
    ELSE IF a.kind # "dict" \/ ~(DOMAIN a.value \subseteq ArtifactRefNames)
    THEN [error |-> "TypeError", artifacts |-> NewArtifactRefs]
    ELSE [error |-> "none",
          artifacts |-> [n \in ArtifactRefNames |->
                            IF n \in DOMAIN a.value THEN a.value[n] ELSE None]]

\* Lines 147-150: the record built from an entry of the right shape; a
\* duration that is None is computed from the timestamps.
StepFromDictAsStoredMut(name, e) ==
    [f \in StepRecordFields |->
        IF f \in DOMAIN e.value THEN e.value[f]
        ELSE IF f = "name" THEN name ELSE NewStepRecord(name)[f]]

StepFromDict(name, e) ==
    LET r == [f \in StepRecordFields |->
                IF f \in DOMAIN e.value THEN e.value[f]
                ELSE IF f = "name" THEN name ELSE NewStepRecord(name)[f]]
    IN  [r EXCEPT !.duration_ms = IF IsNone(@) THEN ComputeDurationMs(r) ELSE @]

\* Lines 161-162: list(data.get("warnings") or []).
ListFromDict(w) ==
    IF ~w.truthy THEN [error |-> "none", list |-> <<>>]
    ELSE IF w.kind \in {"list", "str"} THEN [error |-> "none", list |-> w.value]
    ELSE [error |-> "TypeError", list |-> <<>>]

\* Lines 140-166: from_dict.  Only TypeError is caught; data.get on a value
\* that is no dict and steps_raw.items() on a value that is no dict raise
\* AttributeError.
FromDict(data) ==
    LET Raises(kind, msg) ==
            [raised |-> TRUE, manifest |-> None, err |-> Some(NewExc(kind, <<msg>>))]
        \* Line 166: a TypeError is re-raised as ContractError from it.
        InvalidShape ==
            [raised |-> TRUE, manifest |-> None,
             err |-> Some(RaiseFrom("ContractError", <<"Invalid manifest shape">>,
                                    NewExc("TypeError", <<"unexpected shape">>)))]
        \* Lines 147-149: StepRecord(**step_data) can be built from the entry.
        StepShapeOk(e) == e.kind = "dict" /\ DOMAIN e.value \subseteq StepRecordFields
    IN  IF data.kind # "dict"
        THEN Raises("AttributeError", "object has no attribute get")
        ELSE LET a == ArtifactsFromDict(Get(data, "artifacts"))
                 steps_raw == Get(data, "steps")
                 warnings == ListFromDict(Get(data, "warnings"))
                 errors == ListFromDict(Get(data, "errors"))
             IN  IF a.error # "none" THEN InvalidShape
                 ELSE IF steps_raw.truthy /\ steps_raw.kind # "dict"
                 THEN Raises("AttributeError", "object has no attribute items")
                 ELSE IF steps_raw.truthy
                         /\ \E n \in DOMAIN steps_raw.value : ~StepShapeOk(steps_raw.value[n])
                 THEN InvalidShape
                 ELSE IF warnings.error # "none" \/ errors.error # "none"
                 THEN InvalidShape
                 ELSE [raised |-> FALSE, err |-> None,
                       manifest |-> Some(
                         [ version      |-> GetPlain(data, "version", "1"),
                           run_id       |-> GetPlain(data, "run_id", None),
                           created_at_s |-> GetPlain(data, "created_at_s", None),
                           updated_at_s |-> GetPlain(data, "updated_at_s", None),
                           input_sha256 |-> GetPlain(data, "input_sha256", None),
                           artifacts    |-> a.artifacts,
                           steps        |->
                               IF steps_raw.truthy
                               THEN [n \in DOMAIN steps_raw.value |->
                                        StepFromDict(n, steps_raw.value[n])]
                               ELSE [n \in {} |-> NewStepRecord(n)],
                           warnings     |-> warnings.list,
                           errors       |-> errors.list ])]

SetRefs(m, refs) ==
    [m EXCEPT !.artifacts = [n \in ArtifactRefNames |->
                                IF n \in DOMAIN refs THEN refs[n] ELSE @[n]]]

----------------------------------------------------------------------------
(* contracts/manifest.py: validate_artifact_refs and should_skip_step *)

\* Python truth value of an optional string: None and "" are false.
Truthy(o) == ~IsNone(o) /\ Val(o) # ""

\* Lines 134 and 217: value in (None, "", [], {}).  None and the empty list
\* are both <<>>; a present string v is <<v>>.
IsEmptyRefNoneOnlyMut(v) == v = <<>>

IsEmptyRef(v) == v = <<>> \/ v = <<"">>

\* Lines 127-128: required or [], optional or [].
OrEmpty(names) == IF IsNone(names) THEN <<>> ELSE Val(names)

\* Lines 129-131: the first name of the list that is no field of ArtifactRefs.
FirstUnknown(names) ==
    LET bad == {i \in 1..Len(names) : names[i] \notin ArtifactRefNames}
    IN  IF bad = {} THEN 0 ELSE CHOOSE i \in bad : \A j \in bad : i <= j

\* Lines 132-135: the first required name whose value is empty.
FirstMissing(m, names) ==
    LET bad == {i \in 1..Len(names) : IsEmptyRef(m.artifacts[names[i]])}
    IN  IF bad = {} THEN 0 ELSE CHOOSE i \in bad : \A j \in bad : i <= j

\* Lines 121-135: validate_artifact_refs.  The outcome names the manifest the
\* call leaves behind.
ValidateArtifactRefsOptionalCheckedMut(m, required, optional) ==
    LET all == OrEmpty(required) \o OrEmpty(optional)
    IN  IF FirstUnknown(all) # 0
        THEN [raised |-> TRUE, manifest |-> m,
              err |-> Some(NewExc("ContractError",
                                  <<"Unknown artifact ref", all[FirstUnknown(all)]>>))]
        ELSE IF FirstMissing(m, all) # 0
        THEN [raised |-> TRUE, manifest |-> m,
              err |-> Some(NewExc("ContractError",
                                  <<"Missing required artifact ref",
                                    all[FirstMissing(m, all)]>>))]
        ELSE [raised |-> FALSE, manifest |-> m, err |-> None]

ValidateArtifactRefs(m, required, optional) ==
    LET req == OrEmpty(required)
        all == req \o OrEmpty(optional)
    IN  IF FirstUnknown(all) # 0
        THEN [raised |-> TRUE, manifest |-> m,
              err |-> Some(NewExc("ContractError",
                                  <<"Unknown artifact ref", all[FirstUnknown(all)]>>))]
        ELSE IF FirstMissing(m, req) # 0
        THEN [raised |-> TRUE, manifest |-> m,
              err |-> Some(NewExc("ContractError",
                                  <<"Missing required artifact ref",
                                    req[FirstMissing(m, req)]>>))]
        ELSE [raised |-> FALSE, manifest |-> m, err |-> None]

\* Line 196: manifest.steps.get(step_name); the lookup and the manifest it leaves.
StepsGetEnsuringMut(m, name) ==
    [rec |-> Some(EnsureStep(m, name).steps[name]), manifest |-> EnsureStep(m, name)]

StepsGet(m, name) ==
    [rec |-> IF name \in DOMAIN m.steps THEN Some(m.steps[name]) ELSE None,
     manifest |-> m]

\* Lines 202-203: the value an expectation for input_sha256 is compared with.
InputHashTopLevelOnlyMut(m) == m.input_sha256

InputHash(m) == IF Truthy(m.input_sha256) THEN m.input_sha256 ELSE m.artifacts.input_sha256

\* Lines 200-209: the loop over expected_inputs_hashes, a dict walked in
\* insertion order: "match", "mismatch" (return False) or "unknown" (raise).
RECURSIVE HashLoop(_, _)
HashLoop(m, pairs) ==
    IF pairs = <<>> THEN "match"
    ELSE LET key == Head(pairs).key
             expected == Head(pairs).expected
         IN  IF key # "input_sha256" /\ key \notin ArtifactRefNames
             THEN "unknown"
             ELSE LET actual == IF key = "input_sha256" THEN InputHash(m)
                                ELSE m.artifacts[key]
                  IN  IF actual # Some(expected) THEN "mismatch"
                      ELSE HashLoop(m, Tail(pairs))

\* Lines 214-218: the loop over require_artifact_paths: "present", "empty"
\* (return False) or "unknown" (raise).
RECURSIVE RequireLoop(_, _)
RequireLoop(m, names) ==
    IF names = <<>> THEN "present"
    ELSE IF Head(names) \notin ArtifactRefNames THEN "unknown"
    ELSE IF IsEmptyRef(m.artifacts[Head(names)]) THEN "empty"
    ELSE RequireLoop(m, Tail(names))

SkipReturns(value, m) ==
    [raised |-> FALSE, value |-> Some(value), err |-> None, manifest |-> m]

SkipRaises(msg, m) ==
    [raised |-> TRUE, value |-> None, err |-> Some(NewExc("ContractError", msg)),
     manifest |-> m]

\* Lines 183-220: should_skip_step.  require and expected are optional
\* (None, or Some of a list of names / of key-expected pairs).
ShouldSkipStep(m, step_name, require, expected) ==
    LET got == StepsGet(m, step_name)
        after == got.manifest
    IN  IF IsNone(got.rec) \/ Val(got.rec).status # "success"
        THEN SkipReturns(FALSE, after)
        ELSE LET hashes == IF IsNone(expected) \/ Val(expected) = <<>> THEN "match"
                           ELSE HashLoop(after, Val(expected))
             IN  IF hashes = "unknown"
                 THEN SkipRaises(<<"Unknown hash field required by", step_name>>, after)
                 ELSE IF hashes = "mismatch"
                 THEN SkipReturns(FALSE, after)
                 ELSE IF IsNone(require) \/ Val(require) = <<>>
                 THEN SkipReturns(TRUE, after)
                 ELSE LET refs == RequireLoop(after, Val(require))
                      IN  IF refs = "unknown"
                          THEN SkipRaises(<<"Unknown artifact ref required by", step_name>>,
                                          after)
                          ELSE SkipReturns(refs = "present", after)

----------------------------------------------------------------------------
(* pipeline/prediction_pipeline.py: run() *)

StepOrderSwappedMut == <<"validate", "chunk", "normalize", "transcribe", "generate", "write_outputs">>

StepOrder == <<"validate", "normalize", "chunk", "transcribe", "generate", "write_outputs">>

StepNames == {StepOrder[i] : i \in 1..Len(StepOrder)}

StepName == StepOrder[cur]

RunStates == {"idle", "returned", "raised"}

\* --chunk-seconds of the command line: a positive integer.
ChunkSecondsChoices == {2}

\* What the body of each step can raise besides its normal return.
ValidateErrors == {"InputValidationError"}

NormalizerErrors == {"FfmpegError", "RuntimeError", "PipelineError", "ContractError"}

MinutesErrors == {"InputValidationError", "MinutesGenerationError"}

\* pipeline/io.py persist_manifest, line 68: the manifest is touched first.
PersistManifest(m, at) == Touch(m, at)

\* pipeline/io.py write_json_file and _atomic_write_bytes: the new content of
\* a file that held d, after the serialization of m replaced it.
WriteJsonFileLostMut(d, m) == d

WriteJsonFile(d, m) == Some(ToDict(m))

\* Lines 78-80 of fail_step end in a raise: where run() is after fail_step.
AfterFailContinueMut ==
    IF cur = Len(StepOrder)
    THEN [pc |-> "returned", cur |-> cur]
    ELSE [pc |-> "start", cur |-> cur + 1]

AfterFail == [pc |-> "raised", cur |-> cur]

\* Lines 55-67 of fail_step: the structured error payload.
ErrorPayloadAlwaysTracebackMut(stepName, e, withTraceback) ==
    [ type      |-> e.type,
      message   |-> e.msg,
      context   |-> [ step         |-> stepName,
                      input_path   |-> "input",
                      run_dir      |-> "run_dir",
                      step_context |-> "context" ],
      traceback |-> <<"Traceback", e.type>> ]

ErrorPayload(stepName, e, withTraceback) ==
    LET base == [ type    |-> e.type,
                  message |-> e.msg,
                  context |-> [ step         |-> stepName,
                                input_path   |-> "input",
                                run_dir      |-> "run_dir",
                                step_context |-> "context" ] ]
    IN  IF withTraceback
        THEN base @@ [traceback |-> <<"Traceback", e.type>>]
        ELSE base

\* Lines 78-80 of fail_step: the exception that leaves run().
PropagateRawMut(stepName, e) == e

PropagateOwnKindsMut(stepName, e) ==
    IF IsInstance(e.type, "PipelineError") \/ IsInstance(e.type, "ComponentError")
    THEN e
    ELSE RaiseFrom("PipelineError", <<"pipeline failed at step", stepName>> \o e.msg, e)

Propagate(stepName, e) ==
    IF IsInstance(e.type, "PipelineError")
    THEN e
    ELSE RaiseFrom("PipelineError", <<"pipeline failed at step", stepName>> \o e.msg, e)

ErrorLine(stepName, e) == <<stepName, e.type>> \o e.msg

AdapterIdle ==
    /\ chunk_index = 0
    /\ attempt = 0
    /\ last_error = None
    /\ providerCalls = <<>>
    /\ normalized = <<>>
    /\ lastOutcome = "none"

\* The frame of transcribe_chunks is gone once the step is finished.
ComponentReturned ==
    /\ compIn' = None
    /\ compOut' = None

\* The frame of the adapter's transcribe() is gone once the step is finished.
AdapterReturned ==
    /\ chunk_index' = 0
    /\ attempt' = 0
    /\ last_error' = None
    /\ providerCalls' = <<>>
    /\ normalized' = <<>>
    /\ lastOutcome' = "none"

\* No call of the stitcher on its own has been set up.
SkipIdle ==
    /\ skipM = None
    /\ skipArgs = None
    /\ skipOut = None
    /\ skipCalls = 0

\* No function is called on its own and no file write is in progress.
NoWrite == [pc |-> "idle", tmp |-> None, payload |-> None, error |-> None]

CallIdle ==
    /\ callIn = None
    /\ callOut = None
    /\ aw = NoWrite

FnIdle ==
    /\ stitchIn = None
    /\ stitchOut = None
    /\ compIn = None
    /\ compOut = None
    /\ SkipIdle
    /\ CallIdle

InitRun ==
    /\ runNo = 0
    /\ config \in [include_error_traceback : BOOLEAN, max_retries : 0..MaxRetries,
                 chunk_seconds : ChunkSecondsChoices]
    /\ pc = "idle"
    /\ cur = 1
    /\ manifest = NewManifest(0)
    /\ exc = None
    /\ raised = None
    /\ chunks = None
    /\ disk = None
    /\ fsChunks = 0
    /\ clock = 0
    /\ calls = [s \in StepNames |-> 0]
    /\ execRun = {}
    /\ started = <<>>
    /\ doneAtInvoke = {}
    /\ transcript = None
    /\ AdapterIdle
    /\ rec = NewStepRecord("normalize")

Init == InitRun /\ FnIdle

\* The steps a persisted manifest records as success.
SuccessSteps(d) ==
    IF IsNone(d) THEN {}
    ELSE {n \in DOMAIN Val(d).steps : Val(d).steps[n].status = "success"}

\* Lines 44-52: every run() builds a new Manifest and new locals.
RunInvokeResumeMut ==
    /\ pc \in RunStates
    /\ runNo < MaxRuns
    /\ runNo' = runNo + 1
    /\ manifest' = IF IsNone(disk) THEN NewManifest(runNo + 1) ELSE Val(disk)
    /\ exc' = None
    /\ raised' = None
    /\ chunks' = None
    /\ execRun' = {}
    /\ started' = <<>>
    /\ doneAtInvoke' = SuccessSteps(disk)
    /\ transcript' = None
    /\ calls' = [s \in StepNames |-> 0]
    /\ cur' = IF \E i \in 1..Len(StepOrder) :
                    StepOrder[i] \notin DOMAIN manifest'.steps
                    \/ manifest'.steps[StepOrder[i]].status # "success"
              THEN CHOOSE i \in 1..Len(StepOrder) :
                    /\ StepOrder[i] \notin DOMAIN manifest'.steps
                       \/ manifest'.steps[StepOrder[i]].status # "success"
                    /\ \A j \in 1..(i-1) : StepOrder[j] \in DOMAIN manifest'.steps
                                           /\ manifest'.steps[StepOrder[j]].status = "success"
              ELSE 1
    /\ pc' = "start"
    /\ UNCHANGED <<config, disk, fsChunks, clock, rec, fnVars>>
    /\ UNCHANGED adapterVars

RunInvoke ==
    /\ pc \in RunStates
    /\ runNo < MaxRuns
    /\ runNo' = runNo + 1
    /\ manifest' = NewManifest(runNo + 1)
    /\ exc' = None
    /\ raised' = None
    /\ chunks' = None
    /\ execRun' = {}
    /\ started' = <<>>
    /\ doneAtInvoke' = SuccessSteps(disk)
    /\ transcript' = None
    /\ calls' = [s \in StepNames |-> 0]
    /\ cur' = 1
    /\ pc' = "start"
    /\ UNCHANGED <<config, disk, fsChunks, clock, rec, fnVars>>
    /\ UNCHANGED adapterVars

\* Lines 91-96: start_step.
StartStep ==
    /\ pc = "start"
    /\ LET m1 == EnsureStep(manifest, StepName)
           r1 == Start(m1.steps[StepName], clock)
       IN  manifest' = [m1 EXCEPT !.steps[StepName] = [r1 EXCEPT !.meta = @ \cup {"context"}]]
    /\ started' = Append(started, StepName)
    /\ pc' = "exec"
    /\ UNCHANGED <<runNo, config, cur, exc, raised, chunks, disk, fsChunks, clock,
                   calls, execRun, doneAtInvoke, transcript, rec, fnVars>>
    /\ UNCHANGED adapterVars

\* The body of the current step was entered: bookkeeping shared by the steps.
Entered ==
    /\ execRun' = execRun \cup {StepName}
    /\ calls' = [calls EXCEPT ![StepName] = @ + 1]

BodyRaises(e) ==
    /\ exc' = Some(e)
    /\ pc' = "fail"

BodyReturns ==
    /\ exc' = exc
    /\ pc' = "complete"

----------------------------------------------------------------------------
(* Step bodies of run() *)

\* Lines 101-112: validate.
Validate ==
    /\ pc = "exec" /\ StepName = "validate"
    /\ Entered
    /\ \/ /\ \E k \in ValidateErrors : BodyRaises(NewExc(k, <<"input not found">>))
          /\ UNCHANGED manifest
       \/ \* sha256_file fails after line 110 has set input_path
          /\ BodyRaises(NewExc("OSError", <<"cannot read input">>))
          /\ manifest' = SetRefs(manifest, [input_path |-> Some("input")])
       \/ /\ BodyReturns
          /\ manifest' = [SetRefs(manifest, [input_path |-> Some("input"),
                                             input_sha256 |-> Some("sha-input")])
                            EXCEPT !.input_sha256 = Some("sha-input")]
    /\ UNCHANGED <<runNo, config, cur, raised, chunks, disk, fsChunks, clock,
                   started, doneAtInvoke, transcript, rec, fnVars>>
    /\ UNCHANGED adapterVars

\* Lines 131-134: normalize.
Normalize ==
    /\ pc = "exec" /\ StepName = "normalize"
    /\ Entered
    /\ \/ /\ \E k \in NormalizerErrors : BodyRaises(NewExc(k, <<"normalization failed">>))
          /\ UNCHANGED manifest
       \/ /\ BodyReturns
          /\ manifest' = SetRefs(manifest, [normalized_audio_path |-> Some("normalized.wav"),
                                            normalized_audio_sha256 |-> Some("sha-normalized")])
    /\ UNCHANGED <<runNo, config, cur, raised, chunks, disk, fsChunks, clock,
                   started, doneAtInvoke, transcript, rec, fnVars>>
    /\ UNCHANGED adapterVars

ChunkPath(i) == <<"chunk_0000.wav", "chunk_0001.wav", "chunk_0002.wav", "chunk_0003.wav">>[i + 1]

\* chunk_audio without _prepare_out_dir's check of the directory.
ChunkOverwriteMut ==
    /\ pc = "exec" /\ StepName = "chunk"
    /\ execRun' = execRun \cup {StepName}
    /\ calls' = [calls EXCEPT ![StepName] = @ + 1]
    /\ \/ \E written \in 0..1 :
            /\ BodyRaises(NewExc("FfmpegError", <<"ffmpeg chunking failed">>))
            /\ fsChunks' = written
            /\ UNCHANGED <<manifest, chunks>>
       \/ /\ BodyRaises(NewExc("ChunkingError", <<"ffmpeg produced no chunk files">>))
          /\ UNCHANGED <<manifest, chunks, fsChunks>>
       \/ \E n \in 1..MaxChunks :
            /\ BodyReturns
            /\ fsChunks' = n
            /\ chunks' = Some(n)
            /\ manifest' = SetRefs(manifest,
                    [chunks_dir    |-> Some("chunks"),
                     chunk_paths   |-> [i \in 1..n |-> ChunkPath(i - 1)],
                     chunk_seconds |-> Some(config.chunk_seconds)])
    /\ UNCHANGED <<runNo, config, cur, raised, disk, clock, started, doneAtInvoke, transcript, rec, fnVars>>
    /\ UNCHANGED adapterVars

\* Lines 154-165 and components/chunking.py chunk_audio: calls counts the
\* invocations of the chunker ffmpeg.chunk_audio.
Chunk ==
    /\ pc = "exec" /\ StepName = "chunk"
    /\ execRun' = execRun \cup {StepName}
    /\ IF fsChunks > 0
       THEN \* _prepare_out_dir: the directory must be empty
            /\ BodyRaises(NewExc("ChunkingError", <<"chunk output directory must be empty">>))
            /\ UNCHANGED <<manifest, chunks, fsChunks, calls>>
       ELSE /\ calls' = [calls EXCEPT ![StepName] = @ + 1]
            /\ \/ \E written \in 0..1 :
                    /\ BodyRaises(NewExc("FfmpegError", <<"ffmpeg chunking failed">>))
                    /\ fsChunks' = written
                    /\ UNCHANGED <<manifest, chunks>>
               \/ \* _collect_chunk_paths: no chunk file produced
                  /\ BodyRaises(NewExc("ChunkingError", <<"ffmpeg produced no chunk files">>))
                  /\ UNCHANGED <<manifest, chunks, fsChunks>>
               \/ \E n \in 1..MaxChunks :
                    /\ BodyReturns
                    /\ fsChunks' = n
                    /\ chunks' = Some(n)
                    /\ manifest' = SetRefs(manifest,
                            [chunks_dir    |-> Some("chunks"),
                             chunk_paths   |-> [i \in 1..n |-> ChunkPath(i - 1)],
                             chunk_seconds |-> Some(config.chunk_seconds)])
    /\ UNCHANGED <<runNo, config, cur, raised, disk, clock, started, doneAtInvoke, transcript, rec, fnVars>>
    /\ UNCHANGED adapterVars

----------------------------------------------------------------------------
(* adapters/openai_transcription.py *)

\* Text is a tuple of tokens: the empty string is <<>>, joining concatenates,
\* and " " and "\n" are the whitespace tokens.  Times are whole numbers.
Whitespace == {" ", "\n"}

\* str.strip(): leading and trailing whitespace removed.
RECURSIVE LStrip(_)
LStrip(t) ==
    IF t = <<>> THEN <<>>
    ELSE IF Head(t) \in Whitespace THEN LStrip(Tail(t)) ELSE t

RECURSIVE RStrip(_)
RStrip(t) ==
    IF t = <<>> THEN <<>>
    ELSE IF t[Len(t)] \in Whitespace THEN RStrip(SubSeq(t, 1, Len(t) - 1)) ELSE t

Strip(t) == RStrip(LStrip(t))

\* Lines 58-61 _coerce_text; a missing text is the empty tuple already.
CoerceText(value) == Strip(value)

RawSegmentLists ==
    { <<>>,
      << [text |-> <<"t">>, start |-> Some(0), end |-> Some(1)] >>,
      << [text |-> <<>>,    start |-> None,    end |-> None] >> }

\* The value the provider returns: text, and a segments field that is
\* absent (None), not a list, or a list of raw segments.
Responses ==
    [text : {<<>>, <<"t">>}, segkind : {"none", "notalist"}, segs : {<<>>},
     duration : {None}, language : {<<>>}]
    \cup [text : {<<>>, <<"t">>}, segkind : {"list"}, segs : RawSegmentLists,
          duration : {None}, language : {<<>>}]

ProviderOutcomes ==
    [raises : {TRUE},
     response : {[text |-> <<>>, segkind |-> "none", segs |-> <<>>, duration |-> None,
                  language |-> <<>>]}]
    \cup [raises : {FALSE}, response : Responses]

\* Lines 70-85 of _normalize_segments: the loop over a list of raw segments.
RECURSIVE NormalizeList(_, _)
NormalizeList(raw, idx) ==
    IF raw = <<>> THEN <<>>
    ELSE LET h == Head(raw)
             rest == NormalizeList(Tail(raw), idx + 1)
             text == CoerceText(h.text)
         IN  IF text = <<>> /\ IsNone(h.start) /\ IsNone(h.end)
             THEN rest
             ELSE <<[index |-> idx, text |-> text, start_s |-> h.start, end_s |-> h.end]>> \o rest

\* Line 232: " ".join(seg.text for seg in segments if seg.text), before strip().
RECURSIVE JoinTexts(_)
JoinTexts(segs) ==
    IF segs = <<>> THEN <<>>
    ELSE LET rest == JoinTexts(Tail(segs))
         IN  IF Head(segs).text = <<>> THEN rest
             ELSE IF rest = <<>> THEN Head(segs).text
             ELSE Head(segs).text \o <<" ">> \o rest

NoNormalized == [text |-> <<>>, language |-> None, duration_s |-> None, segments |-> <<>>]

NoExc == NewExc("None", <<>>)

ShapeError(msg) ==
    [ok |-> FALSE, norm |-> NoNormalized, err |-> NewExc("ProviderResponseError", msg)]

\* Lines 229-241 of _transcribe_chunk with _normalize_segments (64-85):
\* the normalized chunk transcript, or the ProviderResponseError raised.
TranscribeChunk(resp) ==
    IF resp.segkind = "notalist"
    THEN ShapeError(<<"segments must be a list">>)
    ELSE LET segments == IF resp.segkind = "none" THEN <<>> ELSE NormalizeList(resp.segs, 0)
             coerced == CoerceText(resp.text)
             language == CoerceText(resp.language)
             text == IF coerced = <<>> /\ segments # <<>>
                     THEN Strip(JoinTexts(segments))
                     ELSE coerced
         IN  IF text = <<>>
             THEN ShapeError(<<"response missing text">>)
             ELSE [ok |-> TRUE,
                   norm |-> [text |-> text,
                             language |-> IF language = <<>> THEN None ELSE Some(language),
                             duration_s |-> resp.duration,
                             segments |-> segments],
                   err |-> NoExc]

\* Lines 116-160 and 189-199 of transcribe: the stitched text (parts joined
\* by newlines) and the stitched segments, shifted by chunk_index * chunk_seconds.
RECURSIVE JoinLines(_)
JoinLines(norms) ==
    IF norms = <<>> THEN <<>>
    ELSE LET rest == JoinLines(Tail(norms))
         IN  IF Head(norms).text = <<>> THEN rest
             ELSE IF rest = <<>> THEN Head(norms).text
             ELSE Head(norms).text \o <<"\n">> \o rest

\* Line 158: full_text.
StitchText(norms) == Strip(JoinLines(norms))

ShiftNoOffsetMut(o, offset) == o

Shift(o, offset) == IF IsNone(o) THEN None ELSE Some(Val(o) + offset)

RECURSIVE StitchSegmentsAlwaysSynthMut(_, _, _, _)
StitchSegmentsAlwaysSynthMut(norms, ci, gi, chunk_seconds) ==
    IF norms = <<>> THEN <<>>
    ELSE LET n == Head(norms)
             offset == ci * chunk_seconds
             own == [k \in 1..Len(n.segments) |->
                        [ index       |-> gi + k - 1,
                          text        |-> n.segments[k].text,
                          start_s     |-> Shift(n.segments[k].start_s, offset),
                          end_s       |-> Shift(n.segments[k].end_s, offset),
                          chunk_index |-> Some(ci) ]]
             mine == IF n.text # <<>>
                     THEN Append(own, [ index       |-> gi + Len(own),
                                        text        |-> n.text,
                                        start_s     |-> None,
                                        end_s       |-> None,
                                        chunk_index |-> Some(ci) ])
                     ELSE own
         IN  mine \o StitchSegmentsAlwaysSynthMut(Tail(norms), ci + 1, gi + Len(mine),
                                                  chunk_seconds)

RECURSIVE StitchSegments(_, _, _, _)
StitchSegments(norms, ci, gi, chunk_seconds) ==
    IF norms = <<>> THEN <<>>
    ELSE LET n == Head(norms)
             offset == ci * chunk_seconds
             mine == IF n.segments # <<>>
                     THEN [k \in 1..Len(n.segments) |->
                            [ index       |-> gi + k - 1,
                              text        |-> n.segments[k].text,
                              start_s     |-> Shift(n.segments[k].start_s, offset),
                              end_s       |-> Shift(n.segments[k].end_s, offset),
                              chunk_index |-> Some(ci) ]]
                     ELSE IF n.text # <<>>
                     THEN << [ index       |-> gi,
                               text        |-> n.text,
                               start_s     |-> None,
                               end_s       |-> None,
                               chunk_index |-> Some(ci) ] >>
                     ELSE <<>>
         IN  mine \o StitchSegments(Tail(norms), ci + 1, gi + Len(mine), chunk_seconds)

\* Lines 131-133: sum_chunk_durations and has_any_duration.
RECURSIVE SumChunkDurations(_)
SumChunkDurations(norms) ==
    IF norms = <<>> THEN 0
    ELSE (IF IsNone(Head(norms).duration_s) THEN 0 ELSE Val(Head(norms).duration_s))
         + SumChunkDurations(Tail(norms))

HasAnyDuration(norms) == \E k \in 1..Len(norms) : ~IsNone(norms[k].duration_s)

SetMin(S) == CHOOSE x \in S : \A y \in S : x <= y

SetMax(S) == CHOOSE x \in S : \A y \in S : x >= y

IsTimestamped(seg) == ~IsNone(seg.start_s) \/ ~IsNone(seg.end_s)

\* Lines 162-174: timestamped_segments, timeline_start_s, timeline_end_s.
TimestampedSegments(segs) == SelectSeq(segs, IsTimestamped)

TimelineStart(segs) ==
    LET starts == {Val(segs[k].start_s) : k \in {j \in 1..Len(segs) : ~IsNone(segs[j].start_s)}}
    IN  IF starts = {} THEN None ELSE Some(SetMin(starts))

TimelineEnd(segs) ==
    LET ends == {Val(segs[k].end_s) : k \in {j \in 1..Len(segs) : ~IsNone(segs[j].end_s)}}
    IN  IF ends = {} THEN None ELSE Some(SetMax(ends))

\* Lines 176-180: duration_s.
DurationAlwaysSumMut(norms, segs) ==
    IF HasAnyDuration(norms) THEN Some(SumChunkDurations(norms)) ELSE None

DurationTimelineOnlyMut(norms, segs) ==
    LET ts == TimestampedSegments(segs)
    IN  IF ~IsNone(TimelineStart(ts)) /\ ~IsNone(TimelineEnd(ts))
        THEN Some(Max(0, Val(TimelineEnd(ts)) - Val(TimelineStart(ts))))
        ELSE None

DurationS(norms, segs) ==
    LET ts == TimestampedSegments(segs)
        timeline_start_s == TimelineStart(ts)
        timeline_end_s == TimelineEnd(ts)
    IN  IF ~IsNone(timeline_start_s) /\ ~IsNone(timeline_end_s)
        THEN Some(Max(0, Val(timeline_end_s) - Val(timeline_start_s)))
        ELSE IF HasAnyDuration(norms)
        THEN Some(SumChunkDurations(norms))
        ELSE None

\* Lines 118 and 125-126: selected_language starts as the adapter's language
\* and takes the language of a chunk while it is None or empty.
RECURSIVE SelectLanguageLastMut(_, _)
SelectLanguageLastMut(selected_language, norms) ==
    IF norms = <<>> THEN selected_language
    ELSE LET chunk == Head(norms)
         IN  SelectLanguageLastMut(IF ~IsNone(chunk.language)
                                   THEN chunk.language
                                   ELSE selected_language,
                                   Tail(norms))

RECURSIVE SelectLanguage(_, _)
SelectLanguage(selected_language, norms) ==
    IF norms = <<>> THEN selected_language
    ELSE LET chunk == Head(norms)
         IN  SelectLanguage(IF /\ selected_language \in {None, Some(<<>>)}
                               /\ ~IsNone(chunk.language)
                            THEN chunk.language
                            ELSE selected_language,
                            Tail(norms))

\* Lines 182-199: the TranscriptArtifact transcribe returns; language is
\* the adapter's self._language.
Transcribe(norms, count, chunk_seconds, language) ==
    LET stitched_segments == StitchSegments(norms, 0, 0, chunk_seconds)
        ts == TimestampedSegments(stitched_segments)
    IN  [ text        |-> StitchText(norms),
          chunk_count |-> count,
          language    |-> SelectLanguage(language, norms),
          segments    |-> IF stitched_segments = <<>> THEN None
                          ELSE Some(stitched_segments),
          duration_s  |-> DurationS(norms, stitched_segments),
          timings     |-> [ segments_count             |-> Len(stitched_segments),
                            timestamped_segments_count |-> Len(ts),
                            timeline_start_s           |-> TimelineStart(ts),
                            timeline_end_s             |-> TimelineEnd(ts) ] ]

\* Lines 158-160 and 189-199: transcribe raises on an empty transcript and
\* returns the artifact otherwise.
TranscribeFinishNoCheckMut(norms, count, chunk_seconds, language) ==
    [ok |-> TRUE, artifact |-> Transcribe(norms, count, chunk_seconds, language),
     err |-> NoExc]

TranscribeFinish(norms, count, chunk_seconds, language) ==
    LET t == Transcribe(norms, count, chunk_seconds, language)
    IN  IF t.text = <<>>
        THEN [ok |-> FALSE, artifact |-> t,
              err |-> NewExc("ProviderResponseError",
                             <<"OpenAI adapter produced an empty transcript">>)]
        ELSE [ok |-> TRUE, artifact |-> t, err |-> NoExc]

NumStr(n) == <<"0", "1", "2", "3", "4", "5">>[n + 1]

\* components/transcription.py lines 8-17, _validate_chunks: the error it
\* raises, if any.  c.paths is len(chunk_paths), c.exist tells whether
\* every chunk path is an existing file.
ValidateChunks(c) ==
    IF c.count # c.paths
    THEN Some(NewExc("InputValidationError", <<"chunks.count must match len(chunks.chunk_paths)">>))
    ELSE IF c.count = 0
    THEN Some(NewExc("InputValidationError", <<"at least one chunk is required for transcription">>))
    ELSE IF ~c.exist
    THEN Some(NewExc("InputValidationError", <<"chunk not found">>))
    ELSE None

\* components/transcription.py lines 27-31: the check of the provider's
\* declared chunk_count.
ContractCheckSkippedMut(t, count) == None

ContractCheck(t, count) ==
    IF t.chunk_count # count
    THEN Some(NewExc("TranscriptionError",
                     <<"provider returned chunk_count=", NumStr(t.chunk_count),
                       "expected", NumStr(count)>>))
    ELSE None

\* components/transcription.py lines 20-31, transcribe_chunks: provided is
\* what provider.transcribe(chunks) does, a returned artifact or an error.
TranscribeChunks(c, provided) ==
    LET invalid == ValidateChunks(c)
    IN  IF ~IsNone(invalid)
        THEN [ok |-> FALSE, artifact |-> None, err |-> Val(invalid)]
        ELSE IF ~provided.ok
        THEN [ok |-> FALSE, artifact |-> None, err |-> provided.err]
        ELSE LET broken == ContractCheck(Val(provided.artifact), c.count)
             IN  IF ~IsNone(broken)
                 THEN [ok |-> FALSE, artifact |-> None, err |-> Val(broken)]
                 ELSE [ok |-> TRUE, artifact |-> provided.artifact, err |-> NoExc]

\* Lines 184-188: the transcribe step enters transcribe_chunks and the
\* adapter's loop over the chunks.
TranscribeBegin ==
    /\ pc = "exec" /\ StepName = "transcribe"
    /\ execRun' = execRun \cup {StepName}
    /\ pc' = "adapter"
    /\ chunk_index' = 0
    /\ attempt' = 1
    /\ last_error' = None
    /\ providerCalls' = [i \in 1..Val(chunks) |-> 0]
    /\ normalized' = <<>>
    /\ lastOutcome' = "none"
    /\ UNCHANGED <<runNo, config, cur, manifest, exc, raised, chunks, disk, fsChunks,
                   clock, calls, started, doneAtInvoke, transcript, rec, fnVars>>

\* The retry budget is spent on the last allowed attempt (line 209).
ExhaustedOffByOneMut(att) == att > config.max_retries + 1

Exhausted(att) == att >= config.max_retries + 1

\* Line 207: except Exception catches every error of _transcribe_chunk, the
\* ProviderResponseError of a malformed response included.
CaughtTransientOnlyMut(e) == ~IsInstance(e.type, "ProviderResponseError")

Caught(e) == IsInstance(e.type, "Exception")

\* Lines 123-124: enumerate(chunks.chunk_paths) hands chunk chunk_index to
\* the retry loop; providerCalls is indexed from 1.
CalledChunkReversedMut == Val(chunks) - chunk_index

CalledChunk == chunk_index + 1

\* One provider call for the current chunk, lines 204-212, and what follows
\* it in transcribe (lines 123-199) and in run (lines 188-194).
ProviderCall(outcome) ==
    /\ pc = "adapter"
    /\ providerCalls' = [providerCalls EXCEPT ![CalledChunk] = @ + 1]
    /\ calls' = [calls EXCEPT !["transcribe"] = @ + 1]
    /\ LET res == IF outcome.raises
                  THEN [ok |-> FALSE, norm |-> NoNormalized,
                        err |-> NewExc("RuntimeError", <<"transient">>)]
                  ELSE TranscribeChunk(outcome.response)
           attempts == config.max_retries + 1
       IN  IF res.ok
           THEN /\ lastOutcome' = "ok"
                /\ normalized' = Append(normalized, res.norm)
                /\ last_error' = None
                /\ IF chunk_index + 1 = Val(chunks)
                   THEN \E fin \in {TranscribeFinish(normalized', Val(chunks),
                                                       config.chunk_seconds, None)} :
                        LET t == fin.artifact
                            broken == ContractCheck(t, Val(chunks))
                        IN  IF fin.ok /\ IsNone(broken)
                            THEN /\ manifest' = SetRefs(manifest,
                                      [transcript_text        |-> Some(t.text),
                                       transcript_provider    |-> Some("openai"),
                                       transcript_model       |-> Some("model"),
                                       transcript_chunk_count |-> Some(t.chunk_count),
                                       transcript_duration_s  |-> t.duration_s])
                                 /\ transcript' = Some(t)
                                 /\ pc' = "complete"
                                 /\ UNCHANGED <<chunk_index, attempt, exc>>
                            ELSE /\ exc' = Some(IF fin.ok THEN Val(broken) ELSE fin.err)
                                 /\ pc' = "fail"
                                 /\ UNCHANGED <<chunk_index, attempt, manifest, transcript>>
                   ELSE /\ chunk_index' = chunk_index + 1
                        /\ attempt' = 1
                        /\ UNCHANGED <<manifest, pc, exc, transcript>>
           ELSE /\ lastOutcome' = IF outcome.raises THEN "transient" ELSE "shape"
                /\ last_error' = Some(res.err)
                /\ UNCHANGED <<normalized, manifest, transcript>>
                /\ IF ~Caught(res.err)
                   THEN /\ exc' = Some(res.err)
                        /\ pc' = "fail"
                        /\ UNCHANGED <<chunk_index, attempt>>
                   ELSE IF Exhausted(attempt)
                   THEN /\ exc' = Some(RaiseFrom("ProviderRetryExhaustedError",
                                        <<"OpenAI transcription failed for chunk",
                                          ChunkPath(chunk_index), "after",
                                          NumStr(attempts), "attempts">>, res.err))
                        /\ pc' = "fail"
                        /\ UNCHANGED <<chunk_index, attempt>>
                   ELSE /\ attempt' = attempt + 1
                        /\ UNCHANGED <<chunk_index, pc, exc>>
    /\ UNCHANGED <<runNo, config, cur, raised, chunks, disk, fsChunks, clock,
                   execRun, started, doneAtInvoke, rec, fnVars>>

\* The transcript a provider hands back, declaring chunk_count d.
ProvidedArtifact(d) == [Transcribe(<<>>, d, 0, None) EXCEPT !.text = <<"bad">>]

ProviderErrors == {"ProviderRetryExhaustedError", "ProviderResponseError"}

ProviderResults ==
    {[ok |-> TRUE, artifact |-> Some(ProvidedArtifact(d)), err |-> NoExc] : d \in 0..MaxChunks}
    \cup {[ok |-> FALSE, artifact |-> None, err |-> NewExc(k, <<"provider failed">>)] :
             k \in ProviderErrors}

\* Lines 184-194 with a transcription provider other than the OpenAI
\* adapter: transcribe_chunks validates the chunks, calls the provider
\* once and checks the chunk_count the returned transcript declares.
TranscribeOther(provided) ==
    /\ pc = "exec" /\ StepName = "transcribe"
    /\ execRun' = execRun \cup {StepName}
    /\ calls' = [calls EXCEPT ![StepName] = @ + 1]
    /\ \E res \in {TranscribeChunks([count |-> Val(chunks),
                                      paths |-> Len(manifest.artifacts.chunk_paths),
                                      exist |-> TRUE], provided)} :
           /\ compIn' = Some([count |-> Val(chunks), provided |-> provided])
           /\ compOut' = Some(res)
           /\ IF res.ok
              THEN LET t == Val(res.artifact)
                   IN  /\ manifest' = SetRefs(manifest,
                             [transcript_text        |-> Some(t.text),
                              transcript_provider    |-> Some("other"),
                              transcript_model       |-> Some("model"),
                              transcript_chunk_count |-> Some(t.chunk_count),
                              transcript_duration_s  |-> t.duration_s])
                       /\ transcript' = Some(t)
                       /\ pc' = "complete"
                       /\ UNCHANGED exc
              ELSE /\ exc' = Some(res.err)
                   /\ pc' = "fail"
                   /\ UNCHANGED <<manifest, transcript>>
    /\ UNCHANGED <<runNo, config, cur, raised, chunks, disk, fsChunks, clock,
                   started, doneAtInvoke, rec, stitchIn, stitchOut, skipVars, callVars>>
    /\ UNCHANGED adapterVars

----------------------------------------------------------------------------
(* Step bodies of run(), continued *)

\* Lines 215-236 and components/minutes.py generate_minutes.
Generate ==
    /\ pc = "exec" /\ StepName = "generate"
    /\ Entered
    /\ \/ /\ \E k \in MinutesErrors : BodyRaises(NewExc(k, <<"minutes failed">>))
          /\ UNCHANGED manifest
       \/ \* line 75: any other error of the llm is re-raised as MinutesGenerationError
          /\ BodyRaises(RaiseFrom("MinutesGenerationError", <<"minutes generation failed">>,
                                  NewExc("RuntimeError", <<"llm down">>)))
          /\ UNCHANGED manifest
       \/ /\ BodyReturns
          /\ manifest' = SetRefs(manifest,
                [minutes_markdown       |-> Some("markdown"),
                 minutes_model          |-> Some("minutes-model"),
                 minutes_prompt_path    |-> Some("prompt.md"),
                 minutes_prompt_hash    |-> Some("sha-prompt")])
    /\ UNCHANGED <<runNo, config, cur, raised, chunks, disk, fsChunks, clock,
                   started, doneAtInvoke, transcript, rec, fnVars>>
    /\ UNCHANGED adapterVars

\* Lines 257-275: write_outputs.  The writes of the output files can fail.
WriteOutputs ==
    /\ pc = "exec" /\ StepName = "write_outputs"
    /\ Entered
    /\ LET t == Val(transcript)
           afterTranscript ==
               SetRefs(manifest,
                   [transcript_path           |-> Some("transcript.txt"),
                    transcript_sha256         |-> Some("sha-transcript"),
                    transcript_segments_path  |->
                        IF IsNone(t.segments) THEN None
                        ELSE Some("transcript_segments.json"),
                    transcript_segments_count |->
                        IF IsNone(t.segments) THEN None
                        ELSE Some(Len(Val(t.segments)))])
       IN  \/ /\ BodyRaises(NewExc("OSError", <<"cannot write transcript">>))
              /\ UNCHANGED manifest
           \/ /\ BodyRaises(NewExc("OSError", <<"cannot write minutes">>))
              /\ manifest' = afterTranscript
           \/ /\ BodyReturns
              /\ manifest' = SetRefs(afterTranscript,
                    [minutes_md_path |-> Some("minutes.md"),
                     minutes_sha256  |-> Some("sha-minutes")])
    /\ UNCHANGED <<runNo, config, cur, raised, chunks, disk, fsChunks, clock,
                   started, doneAtInvoke, transcript, rec, fnVars>>
    /\ UNCHANGED adapterVars

\* complete_step persisting before it marks the record.
CompleteStepPersistFirstMut ==
    /\ pc = "complete"
    /\ LET r1 == Finish(manifest.steps[StepName], "success", clock, None, None,
                        {"context", "artifacts"})
           m1 == [manifest EXCEPT !.steps[StepName] = r1]
       IN  /\ manifest' = PersistManifest(m1, clock)
           /\ disk' = WriteJsonFile(disk, PersistManifest(manifest, clock))
    /\ IF cur = Len(StepOrder)
       THEN pc' = "returned" /\ cur' = cur
       ELSE pc' = "start" /\ cur' = cur + 1
    /\ AdapterReturned
    /\ UNCHANGED <<runNo, config, exc, raised, chunks, fsChunks, clock, calls,
                   execRun, started, doneAtInvoke, transcript, rec, stitchIn, stitchOut, skipVars, callVars>>
    /\ ComponentReturned

\* Lines 82-89: complete_step, then the next step or the return of line 291.
CompleteStep ==
    /\ pc = "complete"
    /\ LET r1 == Finish(manifest.steps[StepName], "success", clock, None, None,
                        {"context", "artifacts"})
           m1 == [manifest EXCEPT !.steps[StepName] = r1]
       IN  /\ manifest' = PersistManifest(m1, clock)
           /\ disk' = WriteJsonFile(disk, manifest')
    /\ IF cur = Len(StepOrder)
       THEN pc' = "returned" /\ cur' = cur
       ELSE pc' = "start" /\ cur' = cur + 1
    /\ AdapterReturned
    /\ UNCHANGED <<runNo, config, exc, raised, chunks, fsChunks, clock, calls,
                   execRun, started, doneAtInvoke, transcript, rec, stitchIn, stitchOut, skipVars, callVars>>
    /\ ComponentReturned

\* Lines 54-80: fail_step.
FailStep ==
    /\ pc = "fail"
    /\ LET e == Val(exc)
           payload == ErrorPayload(StepName, e, config.include_error_traceback)
           r1 == Finish(manifest.steps[StepName], "failed", clock, Some(payload),
                        Some(e.type), {"context"})
           m1 == [manifest EXCEPT !.steps[StepName] = r1,
                                  !.errors = Append(@, ErrorLine(StepName, e))]
       IN  /\ manifest' = PersistManifest(m1, clock)
           /\ disk' = WriteJsonFile(disk, manifest')
           /\ raised' = Some(Propagate(StepName, e))
    /\ pc' = AfterFail.pc
    /\ cur' = AfterFail.cur
    /\ AdapterReturned
    /\ UNCHANGED <<runNo, config, exc, chunks, fsChunks, clock, calls,
                   execRun, started, doneAtInvoke, transcript, rec, stitchIn, stitchOut, skipVars, callVars>>
    /\ ComponentReturned

\* utils/time.py now_unix_s: the reading advances between two invocations of
\* run().  No branch of run() depends on the reading, so one run is modelled
\* at a single reading; readings that differ inside one record are the
\* subject of SpecRecord, where start() and finish() take any reading.
Tick ==
    /\ pc \in RunStates
    /\ runNo > 0
    /\ clock < MaxClock
    /\ clock' = clock + 1
    /\ UNCHANGED <<runNo, config, pc, cur, manifest, exc, raised, chunks, disk,
                   fsChunks, calls, execRun, started, doneAtInvoke, transcript, rec, fnVars>>
    /\ UNCHANGED adapterVars

Next ==
    \/ RunInvoke
    \/ StartStep
    \/ Validate
    \/ Normalize
    \/ Chunk
    \/ TranscribeBegin
    \/ \E o \in ProviderOutcomes : ProviderCall(o)
    \/ \E provided \in ProviderResults : TranscribeOther(provided)
    \/ Generate
    \/ WriteOutputs
    \/ CompleteStep
    \/ FailStep
    \/ Tick

Spec == Init /\ [][Next]_vars

\* One statement of a run() in progress.  run() is sequential code, and a
\* collaborator that is called returns or raises: a run that can take its
\* next statement takes it.
RunStep ==
    \/ StartStep
    \/ Validate
    \/ Normalize
    \/ Chunk
    \/ TranscribeBegin
    \/ \E o \in ProviderOutcomes : ProviderCall(o)
    \/ \E provided \in ProviderResults : TranscribeOther(provided)
    \/ Generate
    \/ WriteOutputs
    \/ CompleteStep
    \/ FailStep

SpecTerminate == Init /\ [][Next]_vars /\ WF_vars(RunStep)

----------------------------------------------------------------------------
(* A StepRecord driven through start() and finish() in any order *)

RecErrors == {None, Some("boom")}

RecStart(at) ==
    /\ rec.attempts < MaxAttempts
    /\ rec' = Start(rec, at)
    /\ UNCHANGED pipeVars
    /\ UNCHANGED adapterVars
    /\ UNCHANGED fnVars

RecFinish(status, at, error) ==
    /\ rec' = Finish(rec, status, at, error,
                     IF IsNone(error) THEN None ELSE Some("RuntimeError"), {})
    /\ UNCHANGED pipeVars
    /\ UNCHANGED adapterVars
    /\ UNCHANGED fnVars

NextRecord ==
    \/ \E at \in 0..MaxAt : RecStart(at)
    \/ \E status \in StepStatus, at \in 0..MaxAt, error \in RecErrors :
          RecFinish(status, at, error)

SpecRecord == Init /\ [][NextRecord]_vars

----------------------------------------------------------------------------
(* The stitcher on its own: OpenAITranscriptionAdapter.transcribe applied  *)
(* to a ChunksArtifact, with a provider that answers each chunk the same   *)
(* way at every attempt.                                                   *)

RawSegment(text, start, end) == [text |-> text, start |-> start, end |-> end]

\* Raw segment lists: a dropped segment before a timed one, a segment with
\* only a start, one with only an end and no text, one whose end precedes
\* its start, and one with text but no timestamps.
StitchSegmentLists ==
    { <<>>,
      << RawSegment(<<>>, None, None), RawSegment(<<"b", " ">>, Some(0), Some(1)) >>,
      << RawSegment(<<"c">>, Some(1), None) >>,
      << RawSegment(<<>>, None, Some(1)) >>,
      << RawSegment(<<"d">>, Some(1), Some(0)) >>,
      << RawSegment(<<"e">>, None, None) >> }

StitchResponses ==
    [text : {<<>>, <<"a", " ">>}, segkind : {"none"}, segs : {<<>>},
     duration : {None, Some(3)}, language : {<<>>}]
    \cup [text : {<<>>, <<"a", " ">>}, segkind : {"list"}, segs : StitchSegmentLists,
          duration : {None, Some(3)}, language : {<<>>}]

RECURSIVE SeqsUpTo(_, _)
SeqsUpTo(S, n) ==
    IF n = 0 THEN {<<>>}
    ELSE LET shorter == SeqsUpTo(S, n - 1)
         IN  shorter \cup {Append(q, x) : q \in {r \in shorter : Len(r) = n - 1}, x \in S}

\* A ChunksArtifact (count and one answer per chunk path); count may
\* disagree with the number of paths.
StitchInputs ==
    {[count |-> c, responses |-> q, language |-> None] :
        q \in SeqsUpTo(StitchResponses, MaxStitchChunks), c \in 0..MaxStitchChunks}

\* Answers that differ in the language they report: none, blank, "en", and
\* "fr" with surrounding blanks.
LanguageResponses ==
    [text : {<<"a">>}, segkind : {"none"}, segs : {<<>>}, duration : {None},
     language : {<<>>, <<" ">>, <<"en">>, <<" ", "fr", " ">>}]

\* The language the adapter was built with (line 107): None, empty, or "de".
PinnedLanguages == {None, Some(<<>>), Some(<<"de">>)}

LanguageInputs ==
    {[count |-> c, responses |-> q, language |-> l] :
        q \in SeqsUpTo(LanguageResponses, MaxStitchChunks), c \in 0..MaxStitchChunks,
        l \in PinnedLanguages}

StitchOf(inputs) ==
    /\ InitRun
    /\ ~config.include_error_traceback
    /\ config.max_retries = 0
    /\ stitchIn \in {Some(i) : i \in inputs}
    /\ stitchOut = None
    /\ compIn = None
    /\ compOut = None
    /\ SkipIdle
    /\ CallIdle

\* Lines 123-124 with 201-212: the first chunk whose answer is malformed at
\* every attempt ends the loop with ProviderRetryExhaustedError.
FirstBad(results) ==
    LET bad == {k \in 1..Len(results) : ~results[k].ok}
    IN  IF bad = {} THEN 0 ELSE SetMin(bad)

\* Lines 112-199: transcribe(chunks).
TranscribeCall(in) ==
    IF in.count # Len(in.responses)
    THEN [ok |-> FALSE, artifact |-> None,
          err |-> NewExc("ProviderResponseError",
                         <<"ChunksArtifact count does not match chunk_paths length">>)]
    ELSE LET results == [k \in 1..Len(in.responses) |-> TranscribeChunk(in.responses[k])]
             bad == FirstBad(results)
         IN  IF bad # 0
             THEN [ok |-> FALSE, artifact |-> None,
                   err |-> RaiseFrom("ProviderRetryExhaustedError",
                                     <<"OpenAI transcription failed for chunk",
                                       ChunkPath(bad - 1), "after",
                                       NumStr(config.max_retries + 1), "attempts">>,
                                     results[bad].err)]
             ELSE LET fin == TranscribeFinish([k \in 1..Len(results) |-> results[k].norm],
                                              in.count, config.chunk_seconds, in.language)
                  IN  [ok |-> fin.ok,
                       artifact |-> IF fin.ok THEN Some(fin.artifact) ELSE None,
                       err |-> fin.err]

StitchCall ==
    /\ ~IsNone(stitchIn)
    /\ IsNone(stitchOut)
    /\ stitchOut' = Some(TranscribeCall(Val(stitchIn)))
    /\ UNCHANGED <<stitchIn, compIn, compOut, rec>>
    /\ UNCHANGED skipVars
    /\ UNCHANGED callVars
    /\ UNCHANGED pipeVars
    /\ UNCHANGED adapterVars

NextStitch == StitchCall

InitStitch == StitchOf(StitchInputs)

SpecStitch == InitStitch /\ [][NextStitch]_vars

\* The stitcher on answers that report languages, with an adapter that may
\* have been built with a language.
InitLanguage == StitchOf(LanguageInputs)

SpecLanguage == InitLanguage /\ [][NextStitch]_vars

----------------------------------------------------------------------------
(* should_skip_step on its own: a manifest and arguments drawn from small  *)
(* sets, and the function called on them, possibly more than once.         *)

MaxSkipCalls == 2

SkipStepStates == {"absent"} \cup StepStatus

\* A manifest with a record for normalize in the given status (or none), a
\* top-level input hash and two artifact refs.
SkipManifest(status, top, ref_hash, ref_path) ==
    LET m0 == NewManifest(0)
        m1 == IF status = "absent" THEN m0
              ELSE [EnsureStep(m0, "normalize") EXCEPT !.steps["normalize"].status = status]
    IN  [m1 EXCEPT !.input_sha256 = top,
                   !.artifacts.input_sha256 = ref_hash,
                   !.artifacts.normalized_audio_path = ref_path]

SkipManifests ==
    {SkipManifest(st, top, rh, rp) :
        st \in SkipStepStates,
        top \in {None, Some(""), Some("a")},
        rh \in {None, Some("a"), Some("b")},
        rp \in {None, Some(""), Some("p")}}

Expect(key, expected) == [key |-> key, expected |-> expected]

RequireChoices ==
    { None, Some(<<>>),
      Some(<<"normalized_audio_path">>),
      Some(<<"chunk_paths">>),
      Some(<<"does_not_exist">>),
      Some(<<"normalized_audio_path", "does_not_exist">>) }

ExpectedChoices ==
    { None, Some(<<>>),
      Some(<<Expect("input_sha256", "a")>>),
      Some(<<Expect("normalized_audio_path", "p")>>),
      Some(<<Expect("does_not_exist", "a")>>),
      Some(<<Expect("input_sha256", "b"), Expect("does_not_exist", "a")>>) }

SkipArguments ==
    [step_name : {"normalize", "chunk"}, require : RequireChoices, expected : ExpectedChoices]

InitSkip ==
    /\ InitRun
    /\ ~config.include_error_traceback
    /\ config.max_retries = 0
    /\ stitchIn = None
    /\ stitchOut = None
    /\ compIn = None
    /\ compOut = None
    /\ skipM \in {Some(m) : m \in SkipManifests}
    /\ skipArgs \in {Some(a) : a \in SkipArguments}
    /\ skipOut = None
    /\ skipCalls = 0
    /\ CallIdle

SkipCall ==
    /\ ~IsNone(skipM)
    /\ skipCalls < MaxSkipCalls
    /\ \E out \in {ShouldSkipStep(Val(skipM), Val(skipArgs).step_name,
                                   Val(skipArgs).require, Val(skipArgs).expected)} :
          /\ skipOut' = Some([raised |-> out.raised, value |-> out.value, err |-> out.err])
          /\ skipM' = Some(out.manifest)
    /\ skipCalls' = skipCalls + 1
    /\ UNCHANGED <<skipArgs, stitchIn, stitchOut, compIn, compOut, rec>>
    /\ UNCHANGED callVars
    /\ UNCHANGED pipeVars
    /\ UNCHANGED adapterVars

NextSkip == SkipCall

SpecSkip == InitSkip /\ [][NextSkip]_vars

----------------------------------------------------------------------------
(* validate_artifact_refs on its own *)

ValidateManifest(path, paths, audio) ==
    SetRefs(NewManifest(0), [input_path |-> path, chunk_paths |-> paths,
                             normalized_audio_path |-> audio])

ValidateManifests ==
    {ValidateManifest(path, paths, audio) :
        path \in {None, Some(""), Some("input")},
        paths \in {<<>>, <<ChunkPath(0)>>},
        audio \in {None, Some("normalized.wav")}}

RequiredChoices ==
    { None, Some(<<>>),
      Some(<<"input_path">>),
      Some(<<"chunk_paths">>),
      Some(<<"input_path", "normalized_audio_path">>),
      Some(<<"does_not_exist">>) }

OptionalChoices ==
    { None, Some(<<>>),
      Some(<<"input_path">>),
      Some(<<"minutes_md_path">>),
      Some(<<"does_not_exist">>) }

ValidateArguments ==
    [manifest : ValidateManifests, required : RequiredChoices, optional : OptionalChoices]

\* The pipeline is idle and one call of the function named by kind is set up.
InitCall(kind, inputs) ==
    /\ InitRun
    /\ ~config.include_error_traceback
    /\ config.max_retries = 0
    /\ stitchIn = None
    /\ stitchOut = None
    /\ compIn = None
    /\ compOut = None
    /\ SkipIdle
    /\ callIn \in {Some([fn |-> kind, args |-> a]) : a \in inputs}
    /\ callOut = None
    /\ aw = NoWrite

\* The call set up in callIn is made and returns or raises.
Called(kind, outcome) ==
    /\ ~IsNone(callIn)
    /\ Val(callIn).fn = kind
    /\ IsNone(callOut)
    /\ callOut' = Some(outcome)
    /\ UNCHANGED <<callIn, aw, rec, stitchIn, stitchOut, compIn, compOut>>
    /\ UNCHANGED skipVars
    /\ UNCHANGED pipeVars
    /\ UNCHANGED adapterVars

InitValidate == InitCall("validate_artifact_refs", ValidateArguments)

ValidateCall ==
    /\ ~IsNone(callIn)
    /\ Called("validate_artifact_refs",
              ValidateArtifactRefs(Val(callIn).args.manifest, Val(callIn).args.required,
                                   Val(callIn).args.optional))

NextValidate == ValidateCall

SpecValidate == InitValidate /\ [][NextValidate]_vars

----------------------------------------------------------------------------
(* pipeline/io.py persist_manifest with _atomic_write_bytes, and            *)
(* Manifest.write_json, step by step: a manifest is touched and written at  *)
(* any clock reading, and every file operation may fail.  callIn is the set *)
(* of documents handed to a write so far.                                   *)

MaxPersists == 2

\* A file that holds only the beginning of a document (possibly nothing).
Partial(doc) == [partial_of |-> doc]

IsComplete(file) == "version" \in DOMAIN file

Handed == Val(callIn).args

WriteFails(msg) == Some(NewExc("OSError", <<msg>>))

InitPersist == InitCall("persist", {{}})

PersistFrame ==
    /\ UNCHANGED <<runNo, config, pc, cur, exc, raised, chunks, fsChunks, clock, calls,
                   execRun, started, doneAtInvoke, transcript, rec, stitchIn, stitchOut,
                   compIn, compOut, callOut>>
    /\ UNCHANGED skipVars
    /\ UNCHANGED adapterVars

\* manifest.py lines 115-119: touch(at_s) called directly.
TouchAt(at) ==
    /\ aw.pc = "idle"
    /\ manifest' = Touch(manifest, at)
    /\ UNCHANGED <<disk, aw, callIn>>
    /\ PersistFrame

\* io.py lines 67-69 and 62-63: touch, to_dict and json.dumps; the payload is
\* handed to _atomic_write_bytes.
PersistBegin(at) ==
    /\ aw.pc = "idle"
    /\ Cardinality(Handed) < MaxPersists
    /\ manifest' = Touch(manifest, at)
    /\ aw' = [pc |-> "mkstemp", tmp |-> None, payload |-> Some(ToDict(manifest')),
              error |-> None]
    /\ callIn' = Some([fn |-> "persist", args |-> Handed \cup {ToDict(manifest')}])
    /\ UNCHANGED disk
    /\ PersistFrame

\* Lines 74-77: mkdir and mkstemp; a failure leaves _atomic_write_bytes
\* before the try block is entered.
Mkstemp ==
    /\ aw.pc = "mkstemp"
    /\ \/ aw' = [aw EXCEPT !.pc = "write", !.tmp = Some(Partial(Val(aw.payload)))]
       \/ aw' = [aw EXCEPT !.pc = "idle", !.error = WriteFails("mkstemp failed")]
    /\ UNCHANGED <<manifest, disk, callIn>>
    /\ PersistFrame

\* Lines 79-81: the payload goes into the temporary file; a failed write
\* leaves a part of it there and control goes to the finally clause.
WriteTmp ==
    /\ aw.pc = "write"
    /\ \/ aw' = [aw EXCEPT !.pc = "fsync", !.tmp = aw.payload]
       \/ aw' = [aw EXCEPT !.pc = "unlink", !.error = WriteFails("write failed")]
    /\ UNCHANGED <<manifest, disk, callIn>>
    /\ PersistFrame

\* Lines 82-86: fsync; its OSError is swallowed, so both outcomes go on.
Fsync ==
    /\ aw.pc = "fsync"
    /\ aw' = [aw EXCEPT !.pc = "replace"]
    /\ UNCHANGED <<manifest, disk, callIn>>
    /\ PersistFrame

\* Line 87: os.replace puts the temporary file at the path in one step, or
\* fails and changes nothing.
Replace ==
    /\ aw.pc = "replace"
    /\ \/ /\ disk' = aw.tmp
          /\ aw' = [aw EXCEPT !.pc = "unlink", !.tmp = None]
       \/ /\ disk' = disk
          /\ aw' = [aw EXCEPT !.pc = "unlink", !.error = WriteFails("replace failed")]
    /\ UNCHANGED <<manifest, callIn>>
    /\ PersistFrame

\* Lines 88-92: the finally clause removes the temporary file if it is still
\* there; a failure to remove it is swallowed.  Then the call returns, or the
\* pending error leaves it.
Unlink ==
    /\ aw.pc = "unlink"
    /\ \/ aw' = [aw EXCEPT !.pc = "idle", !.tmp = None]
       \/ /\ ~IsNone(aw.tmp)
          /\ aw' = [aw EXCEPT !.pc = "idle"]
    /\ UNCHANGED <<manifest, disk, callIn>>
    /\ PersistFrame

\* manifest.py lines 168-171: write_json touches, serializes, and hands the
\* text to path.write_text.
WriteJsonBegin(at) ==
    /\ aw.pc = "idle"
    /\ Cardinality(Handed) < MaxPersists
    /\ manifest' = Touch(manifest, at)
    /\ aw' = [pc |-> "open", tmp |-> None, payload |-> Some(ToDict(manifest')),
              error |-> None]
    /\ callIn' = Some([fn |-> "persist", args |-> Handed \cup {ToDict(manifest')}])
    /\ UNCHANGED disk
    /\ PersistFrame

\* Line 171, path.write_text: the file at the path is opened for writing,
\* which empties it, or cannot be opened.
WriteTextOpen ==
    /\ aw.pc = "open"
    /\ \/ /\ disk' = Some(Partial(Val(aw.payload)))
          /\ aw' = [aw EXCEPT !.pc = "text"]
       \/ /\ disk' = disk
          /\ aw' = [aw EXCEPT !.pc = "idle", !.error = WriteFails("open failed")]
    /\ UNCHANGED <<manifest, callIn>>
    /\ PersistFrame

\* Line 171, path.write_text: the text is written into the open file, or the
\* write fails part-way.
WriteTextWrite ==
    /\ aw.pc = "text"
    /\ \/ /\ disk' = aw.payload
          /\ aw' = [aw EXCEPT !.pc = "idle"]
       \/ /\ disk' = disk
          /\ aw' = [aw EXCEPT !.pc = "idle", !.error = WriteFails("write failed")]
    /\ UNCHANGED <<manifest, callIn>>
    /\ PersistFrame

NextPersist ==
    \/ \E at \in 0..MaxAt : TouchAt(at)
    \/ \E at \in 0..MaxAt : PersistBegin(at)
    \/ Mkstemp
    \/ WriteTmp
    \/ Fsync
    \/ Replace
    \/ Unlink
    \/ \E at \in 0..MaxAt : WriteJsonBegin(at)
    \/ WriteTextOpen
    \/ WriteTextWrite

SpecPersist == InitPersist /\ [][NextPersist]_vars

----------------------------------------------------------------------------
(* A manifest built through its operations, written with write_json and    *)
(* read back with read_json.                                               *)

InitRoundTrip == InitCall("read_json", {<<>>})

RoundTripFrame ==
    /\ UNCHANGED <<runNo, config, pc, cur, exc, raised, chunks, fsChunks, clock, calls,
                   execRun, started, doneAtInvoke, transcript, rec, stitchIn, stitchOut,
                   compIn, compOut, callIn, aw>>
    /\ UNCHANGED skipVars
    /\ UNCHANGED adapterVars

\* The manifest is changed only before it is written.
EnsureStepCall ==
    /\ IsNone(disk)
    /\ "normalize" \notin DOMAIN manifest.steps
    /\ manifest' = EnsureStep(manifest, "normalize")
    /\ UNCHANGED <<disk, callOut>>
    /\ RoundTripFrame

StartCall(at) ==
    /\ IsNone(disk)
    /\ "normalize" \in DOMAIN manifest.steps
    /\ manifest.steps["normalize"].attempts < MaxAttempts
    /\ manifest' = [manifest EXCEPT !.steps["normalize"] = Start(@, at)]
    /\ UNCHANGED <<disk, callOut>>
    /\ RoundTripFrame

FinishCall(status, at, error) ==
    /\ IsNone(disk)
    /\ "normalize" \in DOMAIN manifest.steps
    /\ manifest' = [manifest EXCEPT !.steps["normalize"] =
                        Finish(@, status, at, error,
                               IF IsNone(error) THEN None ELSE Some("RuntimeError"), {})]
    /\ UNCHANGED <<disk, callOut>>
    /\ RoundTripFrame

AssignRef(value) ==
    /\ IsNone(disk)
    /\ manifest' = SetRefs(manifest, [normalized_audio_path |-> value])
    /\ UNCHANGED <<disk, callOut>>
    /\ RoundTripFrame

\* manifest.py lines 168-171, the write succeeding as a whole.
WriteJsonCall(at) ==
    /\ IsNone(disk)
    /\ manifest' = Touch(manifest, at)
    /\ disk' = Some(ToDict(manifest'))
    /\ UNCHANGED callOut
    /\ RoundTripFrame

\* manifest.py lines 173-176: read_json.
ReadJsonCall ==
    /\ ~IsNone(disk)
    /\ IsNone(callOut)
    /\ callOut' = Some(FromDict(Json(Val(disk))))
    /\ UNCHANGED <<manifest, disk>>
    /\ RoundTripFrame

NextRoundTrip ==
    \/ EnsureStepCall
    \/ \E at \in 0..MaxAt : StartCall(at)
    \/ \E status \in {"success", "failed"}, at \in 0..MaxAt, error \in RecErrors :
          FinishCall(status, at, error)
    \/ \E value \in {Some(""), Some("normalized.wav")} : AssignRef(value)
    \/ \E at \in 0..MaxAt : WriteJsonCall(at)
    \/ ReadJsonCall

SpecRoundTrip == InitRoundTrip /\ [][NextRoundTrip]_vars

----------------------------------------------------------------------------
(* from_dict applied to stored documents of every shape: the document is   *)
(* described by the shape of each of its parts.                            *)

StoredShapes ==
    [ top       : {"dict", "list"},
      artifacts : {"absent", "refs", "unknown_field", "list", "empty_list", "num"},
      steps     : {"absent", "dict", "list", "str", "zero"},
      step      : {"record", "named", "unknown_field", "bad_status", "str", "null"},
      warnings  : {"absent", "list", "str", "num"} ]

\* The document json.loads returns for a file of the given shape.
Stored(t) ==
    LET artifacts ==
            CASE t.artifacts = "refs" ->
                    JValue("dict", [input_path |-> Some("in.wav")])
              [] t.artifacts = "unknown_field" ->
                    JValue("dict", [input_path |-> Some("in.wav"), bogus |-> Some("x")])
              [] t.artifacts = "list"       -> JValue("list", <<"in.wav">>)
              [] t.artifacts = "empty_list" -> JValue("list", <<>>)
              [] t.artifacts = "num"        -> JValue("num", <<1>>)
        step ==
            CASE t.step = "record" ->
                    JValue("dict", [status |-> "success", attempts |-> 1,
                                    started_at_s |-> Some(0), ended_at_s |-> Some(3)])
              [] t.step = "named" ->
                    JValue("dict", [name |-> "validate", status |-> "failed",
                                    duration_ms |-> Some(7)])
              [] t.step = "unknown_field" ->
                    JValue("dict", [status |-> "success", bogus |-> 1])
              [] t.step = "bad_status" -> JValue("dict", [status |-> "bogus"])
              [] t.step = "str"        -> JValue("str", <<"a", "b">>)
              [] t.step = "null"       -> JValue("null", <<>>)
        steps ==
            CASE t.steps = "dict" -> JValue("dict", [validate |-> step])
              [] t.steps = "list" -> JValue("list", <<"validate">>)
              [] t.steps = "str"  -> JValue("str", <<"a", "b">>)
              [] t.steps = "zero" -> JValue("num", <<0>>)
        warnings ==
            CASE t.warnings = "list" -> JValue("list", <<"w">>)
              [] t.warnings = "str"  -> JValue("str", <<"a", "b">>)
              [] t.warnings = "num"  -> JValue("num", <<1>>)
    IN  IF t.top = "list" THEN JValue("list", <<"x">>)
        ELSE JValue("dict",
                 [k \in {"version", "run_id"}
                        \cup (IF t.artifacts = "absent" THEN {} ELSE {"artifacts"})
                        \cup (IF t.steps = "absent" THEN {} ELSE {"steps"})
                        \cup (IF t.warnings = "absent" THEN {} ELSE {"warnings"}) |->
                    CASE k = "version"   -> "1"
                      [] k = "run_id"    -> Some(0)
                      [] k = "artifacts" -> artifacts
                      [] k = "steps"     -> steps
                      [] k = "warnings"  -> warnings])

InitFromDict == InitCall("from_dict", StoredShapes)

FromDictCall ==
    /\ ~IsNone(callIn)
    /\ Called("from_dict", FromDict(Stored(Val(callIn).args)))

NextFromDict == FromDictCall

SpecFromDict == InitFromDict /\ [][NextFromDict]_vars

----------------------------------------------------------------------------
(* components/chunking.py: chunk_audio over the directory the chunker      *)
(* leaves behind.  A file name is the tuple of its characters; a character *)
(* outside ASCII is written by its name.                                   *)

MaxCollect == 2

AsciiDigits == <<"0", "1", "2", "3", "4", "5", "6", "7", "8", "9">>

\* ord(c) for the characters of the names used here.
Ord(c) ==
    CASE c = "." -> 46
      [] c = "_" -> 95
      [] c = "a" -> 97   [] c = "c" -> 99   [] c = "e" -> 101  [] c = "h" -> 104
      [] c = "k" -> 107  [] c = "n" -> 110  [] c = "o" -> 111  [] c = "s" -> 115
      [] c = "t" -> 116  [] c = "u" -> 117  [] c = "v" -> 118  [] c = "w" -> 119
      [] c = "x" -> 120
      [] c = "arabic_indic_zero" -> 1632
      [] c = "arabic_indic_one"  -> 1633
      [] OTHER -> 47 + (CHOOSE i \in 1..10 : AsciiDigits[i] = c)

\* The regular expression's \d: a decimal digit of any script, and the value
\* int() gives it.
IsDigit(c) ==
    \/ \E i \in 1..10 : AsciiDigits[i] = c
    \/ c \in {"arabic_indic_zero", "arabic_indic_one"}

DigitValue(c) ==
    CASE c = "arabic_indic_zero" -> 0
      [] c = "arabic_indic_one"  -> 1
      [] OTHER -> (CHOOSE i \in 1..10 : AsciiDigits[i] = c) - 1

\* adapters/ffmpeg.py: the output pattern chunk_%04d.wav.
ChunkFileName(i) ==
    <<"c", "h", "u", "n", "k", "_">>
        \o <<AsciiDigits[((i \div 1000) % 10) + 1], AsciiDigits[((i \div 100) % 10) + 1],
             AsciiDigits[((i \div 10) % 10) + 1], AsciiDigits[(i % 10) + 1]>>
        \o <<".", "w", "a", "v">>

\* _CHUNK_NAME_RE.fullmatch(name) is not None.
MatchesChunkName(name) ==
    /\ Len(name) = 14
    /\ SubSeq(name, 1, 6) = <<"c", "h", "u", "n", "k", "_">>
    /\ \A k \in 7..10 : IsDigit(name[k])
    /\ SubSeq(name, 11, 14) = <<".", "w", "a", "v">>

\* int(match.group(1)).
ChunkIndex(name) ==
    DigitValue(name[7]) * 1000 + DigitValue(name[8]) * 100
        + DigitValue(name[9]) * 10 + DigitValue(name[10])

\* Comparison of two names as sorted() compares them.
RECURSIVE NameLess(_, _)
NameLess(a, b) ==
    IF a = <<>> THEN b # <<>>
    ELSE IF b = <<>> THEN FALSE
    ELSE IF Head(a) = Head(b) THEN NameLess(Tail(a), Tail(b))
    ELSE Ord(Head(a)) < Ord(Head(b))

RECURSIVE Sorted(_)
Sorted(names) ==
    IF names = {} THEN <<>>
    ELSE LET first == CHOOSE n \in names : \A o \in names \ {n} : NameLess(n, o)
         IN  <<first>> \o Sorted(names \ {first})

CollectRaises(kind, msg) ==
    [raised |-> TRUE, err |-> Some(NewExc(kind, <<msg>>)), artifact |-> None]

\* Lines 34-51: entries is the directory content, each entry a name and
\* whether it is a regular file.
CollectChunkPaths(entries) ==
    LET chunk_paths == Sorted({e.name : e \in {x \in entries : x.is_file}})
    IN  IF chunk_paths = <<>>
        THEN CollectRaises("ChunkingError", "ffmpeg produced no chunk files")
        ELSE IF \E k \in 1..Len(chunk_paths) : ~MatchesChunkName(chunk_paths[k])
        THEN CollectRaises("ChunkingError", "unexpected chunk filename")
        ELSE IF \E k \in 1..Len(chunk_paths) : ChunkIndex(chunk_paths[k]) # k - 1
        THEN CollectRaises("ChunkingError", "chunk filenames must be contiguous and zero-based")
        ELSE [raised |-> FALSE, err |-> None, artifact |-> Some(chunk_paths)]

\* Lines 54-72: chunk_audio.  a.audio is what the normalized audio path
\* names, a.out_dir_empty the state of the output directory before the call,
\* a.ffmpeg whether the chunker returns, a.entries what it leaves behind.
ChunkAudio(a) ==
    IF a.chunk_seconds <= 0
    THEN CollectRaises("InputValidationError", "chunk_seconds must be > 0")
    ELSE IF a.audio = "missing"
    THEN CollectRaises("InputValidationError", "normalized audio not found")
    ELSE IF a.audio # "file"
    THEN CollectRaises("InputValidationError", "normalized audio is not a file")
    ELSE IF ~a.out_dir_empty
    THEN CollectRaises("ChunkingError", "chunk output directory must be empty")
    ELSE IF a.ffmpeg # "ok"
    THEN CollectRaises(a.ffmpeg, "ffmpeg failed")
    ELSE LET collected == CollectChunkPaths(a.entries)
         IN  IF collected.raised THEN collected
             ELSE [raised |-> FALSE, err |-> None,
                   artifact |-> Some([ chunk_paths   |-> Val(collected.artifact),
                                       chunk_seconds |-> a.chunk_seconds,
                                       count         |-> Len(Val(collected.artifact)) ])]

\* What a chunker can leave in the directory: each entry a name and whether
\* it is a regular file.
ProducedEntries ==
    LET File(name) == [name |-> name, is_file |-> TRUE]
        Directory(name) == [name |-> name, is_file |-> FALSE]
    IN  {File(ChunkFileName(i)) : i \in 0..MaxCollect}
            \cup { File(<<"c", "h", "u", "n", "k", "_", "1", ".", "w", "a", "v">>),
                   File(<<"n", "o", "t", "e", "s", ".", "t", "x", "t">>),
                   File(<<"c", "h", "u", "n", "k", "_",
                          "arabic_indic_zero", "arabic_indic_zero",
                          "arabic_indic_zero", "arabic_indic_zero",
                          ".", "w", "a", "v">>),
                   Directory(<<"t", "m", "p">>) }

ChunkAudioArguments ==
    [ chunk_seconds : {0, 2},
      audio         : {"file", "directory", "missing"},
      out_dir_empty : BOOLEAN,
      ffmpeg        : {"ok", "ExternalToolError"},
      entries       : SUBSET ProducedEntries ]

InitCollect == InitCall("chunk_audio", ChunkAudioArguments)

ChunkAudioCall ==
    /\ ~IsNone(callIn)
    /\ Called("chunk_audio", ChunkAudio(Val(callIn).args))

NextCollect == ChunkAudioCall

SpecCollect == InitCollect /\ [][NextCollect]_vars

----------------------------------------------------------------------------
(* run() on a file system where writing the manifest can fail.             *)
(* persist_manifest touches the manifest and then writes it atomically, so *)
(* a failed write raises OSError and leaves the file as it was.            *)

ManifestWriteError == NewExc("OSError", <<"cannot write manifest">>)

InitFault ==
    /\ Init
    /\ ~config.include_error_traceback
    /\ config.max_retries = 0

\* Lines 82-89 with line 89 raising: complete_step is called inside the
\* step's try block, so the except clause of the step receives the OSError.
CompleteStepPersistFails ==
    /\ pc = "complete"
    /\ LET r1 == Finish(manifest.steps[StepName], "success", clock, None, None,
                        {"context", "artifacts"})
           m1 == [manifest EXCEPT !.steps[StepName] = r1]
       IN  manifest' = PersistManifest(m1, clock)
    /\ BodyRaises(ManifestWriteError)
    /\ AdapterReturned
    /\ UNCHANGED <<runNo, config, cur, raised, chunks, disk, fsChunks, clock, calls,
                   execRun, started, doneAtInvoke, transcript, rec, stitchIn, stitchOut,
                   skipVars, callVars>>
    /\ ComponentReturned

\* Lines 54-76 with line 76 raising: the OSError leaves run() as it is.
FailStepPersistFails ==
    /\ pc = "fail"
    /\ LET e == Val(exc)
           payload == ErrorPayload(StepName, e, config.include_error_traceback)
           r1 == Finish(manifest.steps[StepName], "failed", clock, Some(payload),
                        Some(e.type), {"context"})
           m1 == [manifest EXCEPT !.steps[StepName] = r1,
                                  !.errors = Append(@, ErrorLine(StepName, e))]
       IN  manifest' = PersistManifest(m1, clock)
    /\ raised' = Some(ManifestWriteError)
    /\ pc' = "raised"
    /\ AdapterReturned
    /\ UNCHANGED <<runNo, config, cur, exc, chunks, disk, fsChunks, clock, calls,
                   execRun, started, doneAtInvoke, transcript, rec, stitchIn, stitchOut,
                   skipVars, callVars>>
    /\ ComponentReturned

NextFault ==
    \/ Next
    \/ CompleteStepPersistFails
    \/ FailStepPersistFails

SpecFault == InitFault /\ [][NextFault]_vars

----------------------------------------------------------------------------
(* Helpers of the properties *)

Recorded(m) == DOMAIN m.steps

StatusOf(m, n) == m.steps[n].status

Index(n) == CHOOSE i \in 1..7 : <<"validate", "normalize", "chunk", "transcribe",
                                  "generate", "write_outputs", "export_docx">>[i] = n

Running == pc \in {"start", "exec", "adapter", "complete", "fail"}

Retries == config.max_retries

Contains(seq, x) == \E i \in 1..Len(seq) : seq[i] = x

----------------------------------------------------------------------------
(* C1 *)

\* C1: fail-fast.  Once a step of run() has failed, no later step is started,
\* no collaborator of a later step is invoked, and neither the manifest in
\* memory nor the persisted one holds a record of a later step.
C1_FailFast ==
    \A n \in Recorded(manifest) :
        StatusOf(manifest, n) = "failed" =>
            /\ pc = "raised"
            /\ \A l \in StepNames :
                  Index(l) > Index(n) =>
                      /\ l \notin Recorded(manifest)
                      /\ l \notin Recorded(Val(disk))
                      /\ ~Contains(started, l)
                      /\ l \notin execRun
                      /\ calls[l] = 0

\* The failure scenario of the tests: transcribe failed, the three steps
\* before it are success, generate and write_outputs have no record.
C1_Witness ==
    /\ pc = "raised"
    /\ Recorded(Val(disk)) = {"validate", "normalize", "chunk", "transcribe"}
    /\ StatusOf(Val(disk), "transcribe") = "failed"
    /\ \A n \in {"validate", "normalize", "chunk"} : StatusOf(Val(disk), n) = "success"

----------------------------------------------------------------------------
(* C2 *)

\* The persisted manifest is the one of the current run and shows exactly
\* the first k steps, all success.
DiskShowsSuccessUpTo(k) ==
    /\ ~IsNone(disk)
    /\ Val(disk).run_id = Some(runNo)
    /\ Recorded(Val(disk)) = {StepOrder[j] : j \in 1..k}
    /\ \A j \in 1..k : StatusOf(Val(disk), StepOrder[j]) = "success"

----------------------------------------------------------------------------
(* C3 *)

ClaimedOrder == <<"validate", "normalize", "chunk", "transcribe", "generate",
                  "write_outputs", "export_docx">>

\* C3: the steps of a run are started in the fixed order, each one only
\* after the step right before it reached success, and none twice.
C3_FixedOrder ==
    /\ Len(started) <= Len(ClaimedOrder)
    /\ \A i \in 1..Len(started) :
          /\ started[i] = ClaimedOrder[i]
          /\ i > 1 => /\ ClaimedOrder[i - 1] \in Recorded(manifest)
                      /\ StatusOf(manifest, ClaimedOrder[i - 1]) = "success"

\* A run that went through all the steps the code has.
C3_Witness ==
    /\ pc = "returned"
    /\ started = <<"validate", "normalize", "chunk", "transcribe", "generate", "write_outputs">>

----------------------------------------------------------------------------
(* C4 *)

IsStartCall == rec'.attempts = rec.attempts + 1

\* C4 as stated: start() on a record that is success or failed leaves its
\* status alone (no transition back to pending).
C4_Original ==
    [][(IsStartCall /\ rec.status \in {"success", "failed"}) => rec'.status = rec.status]_vars

\* C4, amended: start() begins a new attempt on the same record: attempts is
\* incremented, started_at_s is stamped and the status is reset to pending,
\* whatever it was; the end time, duration, error, error_type and metadata
\* of the earlier attempt are kept.
C4_StartResetsStatusOnly ==
    [][IsStartCall =>
          /\ rec'.status = "pending"
          /\ ~IsNone(rec'.started_at_s)
          /\ rec'.name = rec.name
          /\ rec'.ended_at_s = rec.ended_at_s
          /\ rec'.duration_ms = rec.duration_ms
          /\ rec'.error = rec.error
          /\ rec'.error_type = rec.error_type
          /\ rec'.meta = rec.meta]_vars

\* A failed record that was started again: pending, second attempt, the
\* error of the first attempt still on it.
C4_Witness ==
    /\ rec.status = "pending"
    /\ rec.attempts = 2
    /\ ~IsNone(rec.ended_at_s)
    /\ ~IsNone(rec.error)

----------------------------------------------------------------------------
(* C5 *)

\* C5 as stated: a run invoked after a failed or interrupted one does not
\* execute again the steps manifest.json recorded as success.
C5_Original ==
    doneAtInvoke # StepNames => \A n \in doneAtInvoke : n \notin execRun

\* C5, amended: run() does not resume.  Every invocation starts at validate
\* with a new manifest and executes the steps in order again, those that
\* manifest.json records as success included: a step has a record only if it
\* was started by this run, as its first attempt, after every step before it
\* was executed by this run.
C5_EveryRunStartsOver ==
    \A n \in Recorded(manifest) :
        /\ Contains(started, n)
        /\ manifest.steps[n].attempts = 1
        /\ \A l \in StepNames : Index(l) < Index(n) => l \in execRun

\* The second run executes validate and normalize again although
\* manifest.json recorded them as success when it was invoked.
C5_Witness ==
    /\ runNo = 2
    /\ {"validate", "normalize"} \subseteq doneAtInvoke
    /\ {"validate", "normalize"} \subseteq execRun
    /\ calls["normalize"] = 1

----------------------------------------------------------------------------
(* C6 *)

OwnKind(kind) == IsInstance(kind, "PipelineError") \/ IsInstance(kind, "ComponentError")

----------------------------------------------------------------------------
(* C7 *)

----------------------------------------------------------------------------
(* C8 *)

ErrorLinesOf(m, n) == {i \in 1..Len(m.errors) : m.errors[i][1] = n}

FailedRecordOk(m, n) ==
    LET r == m.steps[n]
        e == Val(exc)
    IN  /\ ~IsNone(r.error)
        /\ Val(r.error).type = e.type
        /\ Val(r.error).message = e.msg
        /\ Val(r.error).context.step = n
        /\ ("traceback" \in DOMAIN Val(r.error)) <=> config.include_error_traceback
        /\ r.error_type = Some(e.type)
        /\ Cardinality(ErrorLinesOf(m, n)) = 1
        /\ Len(m.errors) = 1

\* C8: the persisted record of a failed step has status failed and a
\* structured error whose type is the class name of the raised exception,
\* whose message is its text and whose context names the step; the payload
\* has a traceback exactly when include_error_traceback is set; and
\* manifest.errors got exactly one line for the step.
C8_FailedStepPayload ==
    /\ pc = "raised" =>
          /\ StatusOf(Val(disk), StepOrder[cur]) = "failed"
          /\ FailedRecordOk(Val(disk), StepOrder[cur])
          /\ FailedRecordOk(manifest, StepOrder[cur])
    /\ \A n \in Recorded(manifest) :
          StatusOf(manifest, n) # "failed" =>
              /\ IsNone(manifest.steps[n].error)
              /\ ErrorLinesOf(manifest, n) = {}

\* A failure persisted without a traceback, as the option was not set.
C8_Witness ==
    /\ pc = "raised"
    /\ ~config.include_error_traceback
    /\ StepOrder[cur] = "generate"
    /\ StatusOf(Val(disk), "generate") = "failed"
    /\ "traceback" \notin DOMAIN Val(Val(disk).steps["generate"].error)
    /\ Val(disk).errors = <<ErrorLine("generate", Val(exc))>>

----------------------------------------------------------------------------
(* C9 *)

CallsFor(i) == providerCalls[i + 1]

\* run() is in its transcribe step, inside or just out of the adapter's transcribe().
InTranscribe ==
    /\ pc \in {"adapter", "complete", "fail"}
    /\ StepOrder[cur] = "transcribe"
    /\ providerCalls # <<>>

C9_State ==
    InTranscribe =>
        /\ \A i \in 0..(Val(chunks) - 1) : CallsFor(i) <= Retries + 1
        /\ \A i \in 0..(Len(normalized) - 1) : CallsFor(i) >= 1
        /\ pc = "adapter" => /\ Len(normalized) = chunk_index
                             /\ CallsFor(chunk_index) = attempt - 1
        /\ pc = "fail" =>
              /\ Val(exc).type = "ProviderRetryExhaustedError"
              /\ CallsFor(chunk_index) = Retries + 1
              /\ Len(normalized) = chunk_index
              /\ Contains(Val(exc).msg, ChunkPath(chunk_index))
              /\ Val(exc).cause = last_error
              /\ ~IsNone(last_error)

C9_Step ==
    (pc = "adapter" /\ pc' \in {"adapter", "complete", "fail"}) =>
        \A i \in 0..(Val(chunks) - 1) :
            CallsFor(i)' # CallsFor(i) =>
                /\ i = chunk_index
                /\ Len(normalized) = i
                /\ CallsFor(i)' = CallsFor(i) + 1

\* C9: with max_retries = r the provider is called at most r + 1 times for a
\* chunk; a call is made only for the current chunk, which has no result
\* yet (no call follows a success for the same chunk); the call that
\* succeeds, be it the first or the (r+1)-th, yields the chunk's result; and
\* after r + 1 failed calls the adapter raises ProviderRetryExhaustedError,
\* whose message names the chunk's file and whose cause is the last error.
C9_RetryPolicy == []C9_State /\ [][C9_Step]_vars

\* The first chunk failed r times and succeeded on call r + 1, with r = 1.
C9_Witness ==
    /\ pc = "adapter"
    /\ Retries = 1
    /\ chunk_index = 1
    /\ CallsFor(0) = 2
    /\ Len(normalized) = 1

----------------------------------------------------------------------------
(* C10 *)

\* C10 as stated: a malformed response surfaces at once as a response-shape
\* error: the adapter has raised ProviderResponseError and calls no more.
C10_Original ==
    (InTranscribe /\ lastOutcome = "shape") =>
        /\ pc = "fail"
        /\ Val(exc).type = "ProviderResponseError"

\* C10, amended: a malformed response makes _transcribe_chunk raise
\* ProviderResponseError, which the retry loop handles as any failed attempt:
\* while retry budget remains the provider is called again for the chunk, and
\* when the malformed response came on the last attempt the adapter raises
\* ProviderRetryExhaustedError with the ProviderResponseError as its cause.
C10_ShapeErrorIsRetried ==
    (InTranscribe /\ lastOutcome = "shape") =>
        /\ Val(last_error).type = "ProviderResponseError"
        /\ IF CallsFor(chunk_index) < Retries + 1
           THEN /\ pc = "adapter"
                /\ attempt = CallsFor(chunk_index) + 1
                /\ IsNone(exc)
           ELSE /\ pc = "fail"
                /\ Val(exc).type = "ProviderRetryExhaustedError"
                /\ Val(exc).cause = last_error

\* A malformed response on the first attempt, and the loop goes on.
C10_Witness ==
    /\ pc = "adapter"
    /\ lastOutcome = "shape"
    /\ attempt = 2
    /\ Val(last_error).msg = <<"segments must be a list">>

----------------------------------------------------------------------------
(* C11 *)

C11_State ==
    InTranscribe =>
        \A i \in 0..(Val(chunks) - 1) :
            /\ i > chunk_index => CallsFor(i) = 0
            /\ i < chunk_index => /\ i < Len(normalized)
                                  /\ CallsFor(i) >= 1

C11_Step ==
    /\ (pc = "adapter" /\ pc' \in {"adapter", "complete", "fail"}) =>
          /\ chunk_index' \in {chunk_index, chunk_index + 1}
          /\ chunk_index' = chunk_index + 1 =>
                /\ lastOutcome' = "ok"
                /\ Len(normalized') = chunk_index'
          /\ pc' = "fail" =>
                \A i \in 0..(Val(chunks) - 1) : i > chunk_index => CallsFor(i)' = 0
    /\ (pc \in {"fail", "raised"} /\ StepOrder[cur] = "transcribe" /\ runNo' = runNo) =>
          calls'["transcribe"] = calls["transcribe"]

\* C11: chunks are transcribed one at a time in index order: while chunk i
\* is the current chunk no call has been made for a later chunk and every
\* earlier chunk has been called and has its result; the loop moves from
\* chunk i to chunk i + 1 only on a successful call; and once a chunk has
\* exhausted its retries no provider call is made any more in that run.
C11_SequentialChunks == []C11_State /\ [][C11_Step]_vars

\* The first of two chunks exhausted its two attempts; the second was never tried.
C11_Witness ==
    /\ pc = "fail"
    /\ StepOrder[cur] = "transcribe"
    /\ Val(chunks) = 2
    /\ Len(providerCalls) = 2
    /\ chunk_index = 0
    /\ CallsFor(0) = 2
    /\ CallsFor(1) = 0

----------------------------------------------------------------------------
(* C12 *)

StitchReturned == ~IsNone(stitchOut) /\ Val(stitchOut).ok

StitchedTranscript == Val(Val(stitchOut).artifact)

\* The stitched segments; an absent list is the empty one.
StitchedSegments ==
    IF IsNone(StitchedTranscript.segments) THEN <<>> ELSE Val(StitchedTranscript.segments)

\* The raw segments of chunk i (0-based) that are not dropped: those with
\* text or with a timestamp.
RawKept(i) ==
    LET r == Val(stitchIn).responses[i + 1]
        Keeps(g) == Strip(g.text) # <<>> \/ ~IsNone(g.start) \/ ~IsNone(g.end)
    IN  IF r.segkind = "list" THEN SelectSeq(r.segs, Keeps) ELSE <<>>

StitchedOf(i) ==
    LET Of(g) == g.chunk_index = Some(i)
    IN  SelectSeq(StitchedSegments, Of)

Plus(o, d) == IF IsNone(o) THEN None ELSE Some(Val(o) + d)

\* C12: a segment of chunk i with chunk-local start s and end e is in the
\* stitched transcript with start s + i*S, end e + i*S and chunk_index i;
\* the stitched segments are in chunk order and their indices are 0, 1, 2,
\* ... without a gap, also when raw segments were dropped.
C12_TimestampStitching ==
    StitchReturned =>
        LET segs == StitchedSegments
            S == config.chunk_seconds
            N == Val(stitchIn).count
        IN  /\ \A k \in 1..Len(segs) : segs[k].index = k - 1
            /\ \A k \in 1..Len(segs), l \in 1..Len(segs) :
                  k < l => Val(segs[k].chunk_index) <= Val(segs[l].chunk_index)
            /\ \A i \in 0..(N - 1) :
                  LET raw == RawKept(i)
                      out == StitchedOf(i)
                  IN  raw # <<>> =>
                        /\ Len(out) = Len(raw)
                        /\ \A k \in 1..Len(raw) :
                              /\ out[k].start_s = Plus(raw[k].start, i * S)
                              /\ out[k].end_s = Plus(raw[k].end, i * S)
                              /\ out[k].text = Strip(raw[k].text)

\* Two chunks, the second with a dropped raw segment before a timed one:
\* the timed one is stitched at start 0 + 1*S with the next free index.
C12_Witness ==
    /\ StitchReturned
    /\ Val(stitchIn).count = 2
    /\ Len(Val(stitchIn).responses[2].segs) = 2
    /\ Len(RawKept(0)) = 1
    /\ Len(StitchedSegments) = 2
    /\ StitchedSegments[2].start_s = Some(config.chunk_seconds)
    /\ StitchedSegments[2].index = 1

----------------------------------------------------------------------------
(* C13 *)

\* Read off the input and the stitched segments.
StartsOf(segs) == {Val(segs[k].start_s) : k \in {j \in 1..Len(segs) : ~IsNone(segs[j].start_s)}}

EndsOf(segs) == {Val(segs[k].end_s) : k \in {j \in 1..Len(segs) : ~IsNone(segs[j].end_s)}}

ReportedDurations ==
    {k \in 1..Len(Val(stitchIn).responses) : ~IsNone(Val(stitchIn).responses[k].duration)}

RECURSIVE SumReported(_)
SumReported(K) ==
    IF K = {} THEN 0
    ELSE LET k == CHOOSE x \in K : TRUE
         IN  Val(Val(stitchIn).responses[k].duration) + SumReported(K \ {k})

FallbackDuration ==
    IF ReportedDurations # {} THEN Some(SumReported(ReportedDurations)) ELSE None

\* C13 as stated: whenever a stitched segment carries a start or an end, the
\* duration is max(0, max(end) - min(start)); the sum of the reported chunk
\* durations is used only when no stitched segment carries a timestamp.
C13_Original ==
    StitchReturned =>
        LET starts == StartsOf(StitchedSegments)
            ends == EndsOf(StitchedSegments)
        IN  IF starts # {} \/ ends # {}
            THEN /\ starts # {} /\ ends # {}
                 /\ StitchedTranscript.duration_s = Some(Max(0, SetMax(ends) - SetMin(starts)))
            ELSE StitchedTranscript.duration_s = FallbackDuration

\* C13, amended: rule (1) needs both ends of the timeline: when at least one
\* stitched segment has a start and at least one has an end, the duration is
\* max(0, max(end) - min(start)); otherwise (no start anywhere, or no end
\* anywhere) it is the sum of the reported chunk durations if any chunk
\* reported one, and unknown if none did.
C13_DurationNeedsStartAndEnd ==
    StitchReturned =>
        LET starts == StartsOf(StitchedSegments)
            ends == EndsOf(StitchedSegments)
        IN  IF starts # {} /\ ends # {}
            THEN StitchedTranscript.duration_s = Some(Max(0, SetMax(ends) - SetMin(starts)))
            ELSE StitchedTranscript.duration_s = FallbackDuration

\* Two chunks that both report a duration of 3 and carry a segment from 0 to
\* 1: the timeline runs from 0 to 1 + S and wins over the sum 6.
C13_Witness ==
    /\ StitchReturned
    /\ Val(stitchIn).count = 2
    /\ ReportedDurations = {1, 2}
    /\ StartsOf(StitchedSegments) = {0, config.chunk_seconds}
    /\ EndsOf(StitchedSegments) = {1, 1 + config.chunk_seconds}
    /\ StitchedTranscript.duration_s = Some(1 + config.chunk_seconds)

----------------------------------------------------------------------------
(* C14 *)

\* No chunk's response contributes a segment.
AllWithoutSegments ==
    \A i \in 0..(Len(Val(stitchIn).responses) - 1) : RawKept(i) = <<>>

\* C14 as stated: when every chunk's response comes without segments the
\* stitched transcript has no segments and its duration is the sum of the
\* reported chunk durations, unknown when none was reported.
C14_Original ==
    (StitchReturned /\ AllWithoutSegments) =>
        /\ IsNone(StitchedTranscript.segments)
        /\ StitchedTranscript.duration_s = FallbackDuration

\* C14, amended: when every chunk's response comes without segments the
\* stitched transcript has no timestamped segment: its segments are one
\* synthesized whole-chunk segment per chunk, in chunk order, with the
\* chunk's text, no start and no end; its duration is the sum of the
\* reported chunk durations, unknown when none was reported.
C14_OnlySynthesizedSegments ==
    (StitchReturned /\ AllWithoutSegments) =>
        LET segs == StitchedSegments
            N == Val(stitchIn).count
        IN  /\ Len(segs) = N
            /\ StitchedTranscript.segments = Some(segs)
            /\ \A k \in 1..N :
                  /\ segs[k].chunk_index = Some(k - 1)
                  /\ segs[k].text = Strip(Val(stitchIn).responses[k].text)
                  /\ IsNone(segs[k].start_s)
                  /\ IsNone(segs[k].end_s)
            /\ StitchedTranscript.timings.timestamped_segments_count = 0
            /\ StitchedTranscript.duration_s = FallbackDuration

\* Two chunks without segments, one of them reporting its duration.
C14_Witness ==
    /\ StitchReturned
    /\ AllWithoutSegments
    /\ Val(stitchIn).count = 2
    /\ ReportedDurations = {2}
    /\ Len(StitchedSegments) = 2
    /\ StitchedTranscript.duration_s = Some(3)

----------------------------------------------------------------------------
(* C16 *)

StitchCalled == ~IsNone(stitchOut)

\* The text chunk k contributes: its response's text, trimmed, or, when that
\* is empty, the texts of its segments joined by blanks.
RECURSIVE SegmentWords(_)
SegmentWords(raw) ==
    IF raw = <<>> THEN <<>>
    ELSE LET t == Strip(Head(raw).text)
             rest == SegmentWords(Tail(raw))
         IN  IF t = <<>> THEN rest
             ELSE IF rest = <<>> THEN t
             ELSE t \o <<" ">> \o rest

ChunkText(k) ==
    LET r == Val(stitchIn).responses[k]
    IN  IF Strip(r.text) # <<>> THEN Strip(r.text)
        ELSE IF r.segkind = "list" THEN SegmentWords(r.segs)
        ELSE <<>>

RECURSIVE ExpectedText(_)
ExpectedText(k) ==
    IF k > Len(Val(stitchIn).responses) THEN <<>>
    ELSE LET rest == ExpectedText(k + 1)
         IN  IF ChunkText(k) = <<>> THEN rest
             ELSE IF rest = <<>> THEN ChunkText(k)
             ELSE ChunkText(k) \o <<"\n">> \o rest

\* C16: a transcript the stitcher returns has a non-empty text, which is the
\* chunks' non-empty texts in chunk order joined by newlines and trimmed, and
\* a chunk_count equal to the chunk set's count (and number of paths); when
\* the joined text is empty the stitcher raises instead of returning.
C16_ReturnedTranscriptValid ==
    /\ StitchReturned =>
          /\ StitchedTranscript.text # <<>>
          /\ StitchedTranscript.text = Strip(ExpectedText(1))
          /\ StitchedTranscript.chunk_count = Val(stitchIn).count
          /\ StitchedTranscript.chunk_count = Len(Val(stitchIn).responses)
    /\ (StitchCalled /\ Strip(ExpectedText(1)) = <<>>) =>
          /\ ~Val(stitchOut).ok
          /\ IsInstance(Val(stitchOut).err.type, "ProviderError")

\* Two chunks: the first gives its text with a trailing blank, the second
\* gives no text but a segment with text.
C16_Witness ==
    /\ StitchReturned
    /\ Len(Val(stitchIn).responses) = 2
    /\ Val(stitchIn).responses[1].text = <<"a", " ">>
    /\ Val(stitchIn).responses[2].text = <<>>
    /\ StitchedTranscript.text = <<"a", "\n", "b">>
    /\ StitchedTranscript.chunk_count = 2

----------------------------------------------------------------------------
(* C15 *)

C15_State ==
    ~IsNone(compOut) =>
        LET in == Val(compIn)
            out == Val(compOut)
            p == in.provided
        IN  /\ out.ok =>
                  /\ p.ok
                  /\ Val(out.artifact).chunk_count = in.count
                  /\ pc = "complete"
                  /\ transcript = out.artifact
            /\ (p.ok /\ Val(p.artifact).chunk_count # in.count) =>
                  /\ ~out.ok
                  /\ out.err.type = "TranscriptionError"
                  /\ ~IsInstance(out.err.type, "ProviderRetryExhaustedError")
                  /\ ~IsInstance(out.err.type, "ProviderResponseError")
                  /\ pc = "fail"
                  /\ exc = Some(out.err)
                  /\ IsNone(transcript)
            /\ ~p.ok => (~out.ok /\ out.err = p.err)

C15_Step ==
    (pc = "fail" /\ ~IsNone(compOut)) =>
        /\ pc' = "raised"
        /\ manifest'.steps["transcribe"].status = "failed"
        /\ manifest'.steps["transcribe"].error_type = Some(Val(exc).type)

\* C15: transcribe_chunks returns the provider's transcript only if the
\* chunk_count it declares equals the chunk set's count; on a mismatch it
\* raises TranscriptionError, which is an instance neither of the
\* retry-exhausted nor of the response-shape error, no transcript reaches
\* run(), and the transcribe step is recorded as failed.
C15_ProviderContractCheck == []C15_State /\ [][C15_Step]_vars

\* Two chunks and a provider whose transcript declares one.
C15_Witness ==
    /\ pc = "fail"
    /\ ~IsNone(compOut)
    /\ Val(compIn).count = 2
    /\ Val(compIn).provided.ok
    /\ Val(Val(compIn).provided.artifact).chunk_count = 1
    /\ Val(exc).type = "TranscriptionError"

----------------------------------------------------------------------------
(* should_skip_step: C17 *)

SkipCalled == skipCalls > 0 /\ ~IsNone(skipOut)

SkipReturnedTrue == SkipCalled /\ Val(skipOut).value = Some(TRUE)

StepSucceeded(m, a) ==
    /\ a.step_name \in DOMAIN m.steps
    /\ m.steps[a.step_name].status = "success"

\* The manifest's current value for a declared hash name: the input hash for
\* input_sha256 (the top-level one, or the artifact ref's when the top-level
\* one is unset), the artifact ref otherwise; a name that is no field has none.
CurrentValue(m, key) ==
    IF key = "input_sha256"
    THEN IF m.input_sha256 \in {None, Some("")} THEN m.artifacts.input_sha256
         ELSE m.input_sha256
    ELSE IF key \in DOMAIN m.artifacts THEN m.artifacts[key]
    ELSE None

DeclaredPairs(a) == IF IsNone(a.expected) THEN <<>> ELSE Val(a.expected)

RequiredNames(a) == IF IsNone(a.require) THEN <<>> ELSE Val(a.require)

HashesMatch(m, a) ==
    \A i \in DOMAIN DeclaredPairs(a) :
        CurrentValue(m, DeclaredPairs(a)[i].key) = Some(DeclaredPairs(a)[i].expected)

RefsNonEmpty(m, a) ==
    \A i \in DOMAIN RequiredNames(a) :
        /\ RequiredNames(a)[i] \in DOMAIN m.artifacts
        /\ m.artifacts[RequiredNames(a)[i]] \notin {None, Some("")}

SkipConditions(m, a) == StepSucceeded(m, a) /\ HashesMatch(m, a) /\ RefsNonEmpty(m, a)

\* C17: should_skip_step answers true exactly when the step's record exists
\* with status success, every declared (name, expected hash) pair equals the
\* manifest's current value and every required artifact ref is non-empty; and
\* from a true answer, any manifest on which one of the three conditions is
\* false is not answered with true for the same arguments.
C17_SkipIff ==
    SkipCalled =>
        /\ SkipReturnedTrue <=> SkipConditions(Val(skipM), Val(skipArgs))
        /\ SkipReturnedTrue =>
              \A m2 \in SkipManifests :
                  ~SkipConditions(m2, Val(skipArgs)) =>
                      ShouldSkipStep(m2, Val(skipArgs).step_name, Val(skipArgs).require,
                                     Val(skipArgs).expected).value # Some(TRUE)

\* A true answer with a declared hash and a required ref both in play.
C17_Witness ==
    /\ SkipReturnedTrue
    /\ Val(skipArgs).require = Some(<<"normalized_audio_path">>)
    /\ Val(skipArgs).expected = Some(<<Expect("input_sha256", "a")>>)
    /\ Val(skipM).input_sha256 = Some("a")

----------------------------------------------------------------------------
(* should_skip_step: C18 *)

\* The names a call refers to: the required refs and the keys of the declared
\* hashes.  input_sha256 is a known key; every other name must be a field of
\* the artifact refs.
ReferencedNames(a) ==
    {RequiredNames(a)[i] : i \in DOMAIN RequiredNames(a)}
        \cup {DeclaredPairs(a)[i].key : i \in DOMAIN DeclaredPairs(a)}

RefersToUnknownName(m, a) ==
    \E n \in ReferencedNames(a) : n # "input_sha256" /\ n \notin DOMAIN m.artifacts

SkipRaisedContractError ==
    /\ SkipCalled
    /\ Val(skipOut).raised
    /\ Val(Val(skipOut).err).type = "ContractError"

\* C18: a call that refers to a name that is no artifact-ref field raises a
\* contract error on every manifest, and is never answered with false.
C18_UnknownNameRaises ==
    (SkipCalled /\ RefersToUnknownName(Val(skipM), Val(skipArgs))) => SkipRaisedContractError

\* The step has no success record, an unknown ref is required, and the call
\* answers false.
C18_Witness ==
    /\ SkipCalled
    /\ ~StepSucceeded(Val(skipM), Val(skipArgs))
    /\ Val(skipArgs).require = Some(<<"does_not_exist">>)
    /\ Val(skipArgs).expected = None
    /\ Val(skipOut).value = Some(FALSE)

----------------------------------------------------------------------------
(* should_skip_step: C19 *)

TopLevelHashSet(m) == m.input_sha256 \notin {None, Some("")}

\* The declared expectations for the key input_sha256.
InputHashExpectations(a) ==
    {DeclaredPairs(a)[i].expected :
        i \in {j \in DOMAIN DeclaredPairs(a) : DeclaredPairs(a)[j].key = "input_sha256"}}

FirstKeyIsInputHash(a) ==
    DeclaredPairs(a) # <<>> /\ DeclaredPairs(a)[1].key = "input_sha256"

\* C19 as stated: a true answer means every expectation for input_sha256
\* equals the top-level input hash, so none matches when that hash is absent
\* or empty, whatever the artifact ref of the same name holds.
C19_Original ==
    SkipReturnedTrue =>
        \A e \in InputHashExpectations(Val(skipArgs)) : Val(skipM).input_sha256 = Some(e)

\* The hash an input_sha256 expectation is compared with: the top-level one
\* when it is set and non-empty, the artifact ref of the same name otherwise.
ComparedInputHash(m) ==
    IF TopLevelHashSet(m) THEN m.input_sha256 ELSE m.artifacts.input_sha256

\* C19: an input_sha256 expectation is compared with the top-level input hash
\* when that is set and non-empty, and the artifact ref is then ignored; when
\* the top-level hash is absent or empty it is compared with
\* artifacts.input_sha256 instead.
C19_InputHashFallback ==
    (SkipCalled /\ StepSucceeded(Val(skipM), Val(skipArgs))) =>
        LET m == Val(skipM)
            a == Val(skipArgs)
        IN  /\ SkipReturnedTrue =>
                  \A e \in InputHashExpectations(a) : ComparedInputHash(m) = Some(e)
            /\ (FirstKeyIsInputHash(a)
                    /\ ComparedInputHash(m) # Some(DeclaredPairs(a)[1].expected))
                  => Val(skipOut).value = Some(FALSE)
            /\ (FirstKeyIsInputHash(a) /\ Len(DeclaredPairs(a)) = 1
                    /\ RequiredNames(a) = <<>>
                    /\ ComparedInputHash(m) = Some(DeclaredPairs(a)[1].expected))
                  => Val(skipOut).value = Some(TRUE)

\* No top-level hash, and the expectation equals the artifact ref: the call
\* answers true.
C19_Witness ==
    /\ SkipReturnedTrue
    /\ ~TopLevelHashSet(Val(skipM))
    /\ Val(skipM).artifacts.input_sha256 = Some("a")
    /\ Val(skipArgs).expected = Some(<<Expect("input_sha256", "a")>>)

----------------------------------------------------------------------------
(* should_skip_step: C20 *)

\* A call leaves the whole manifest (steps, artifact refs, hashes,
\* timestamps, warnings and errors) as it was, and a call after the first
\* gives what the one before gave: the same value or the same error.
C20_Step ==
    (skipCalls' = skipCalls + 1) =>
        /\ skipM' = skipM
        /\ Val(skipM').steps = Val(skipM).steps
        /\ Val(skipM').artifacts = Val(skipM).artifacts
        /\ skipCalls > 0 => skipOut' = skipOut

\* C20: should_skip_step has no side effects on the manifest, for a step
\* with or without a record and for calls that return or raise, and repeated
\* calls on the unchanged manifest give the same result.
C20_NoSideEffects == [][C20_Step]_vars

\* Called twice for a step that has no record.
C20_Witness ==
    /\ skipCalls = 2
    /\ ~IsNone(skipOut)
    /\ Val(skipArgs).step_name = "chunk"
    /\ "chunk" \notin DOMAIN Val(skipM).steps
    /\ Val(skipOut).value = Some(FALSE)

----------------------------------------------------------------------------
(* validate_artifact_refs: C21 *)

CallReturned(kind) ==
    ~IsNone(callOut) /\ Val(callIn).fn = kind /\ ~Val(callOut).raised

CallRaised(kind, type) ==
    /\ ~IsNone(callOut)
    /\ Val(callIn).fn = kind
    /\ Val(callOut).raised
    /\ Val(Val(callOut).err).type = type

NamesOf(o) == IF IsNone(o) THEN {} ELSE {Val(o)[i] : i \in DOMAIN Val(o)}

\* C21: validate_artifact_refs raises a contract error exactly when a
\* required or optional name is no field of the artifact refs or a required
\* name's value is None, the empty string or the empty list; the value of a
\* known optional name plays no part; otherwise it returns, and in either
\* case the manifest is left as it was.
C21_ValidateArtifactRefs ==
    ~IsNone(callOut) =>
        LET a == Val(callIn).args
            unknown == \E n \in NamesOf(a.required) \cup NamesOf(a.optional) :
                          n \notin DOMAIN a.manifest.artifacts
            missing == \E n \in NamesOf(a.required) :
                          /\ n \in DOMAIN a.manifest.artifacts
                          /\ a.manifest.artifacts[n] \in {None, Some(""), <<>>}
        IN  /\ (unknown \/ missing) <=> CallRaised("validate_artifact_refs", "ContractError")
            /\ ~(unknown \/ missing) <=> CallReturned("validate_artifact_refs")
            /\ Val(callOut).manifest = a.manifest

\* A known optional name whose value is empty, next to a required name that
\* is set: the call returns.
C21_Witness ==
    /\ CallReturned("validate_artifact_refs")
    /\ Val(callIn).args.required = Some(<<"input_path">>)
    /\ Val(callIn).args.optional = Some(<<"minutes_md_path">>)
    /\ Val(callIn).args.manifest.artifacts["minutes_md_path"] = None

----------------------------------------------------------------------------
(* Manifest timestamps: C22 *)

\* A step that touches the manifest: touch(), persist_manifest or write_json.
Touches == manifest' # manifest \/ (aw.pc = "idle" /\ aw'.pc # "idle")

CreatedKept ==
    ~IsNone(manifest.created_at_s) => manifest'.created_at_s = manifest.created_at_s

UpdatedAdvances ==
    /\ ~IsNone(manifest.updated_at_s) =>
          Val(manifest'.updated_at_s) >= Val(manifest.updated_at_s)
    /\ Val(manifest'.updated_at_s) >= Val(manifest'.created_at_s)

C22_Step == CreatedKept /\ (Touches => UpdatedAdvances)

\* C22: created_at_s is set by the first touch or persist and no later one
\* changes it; updated_at_s never decreases from one touch or persist to the
\* next and is never below created_at_s, whatever the clock reads.
C22_TimestampsMonotone == [][C22_Step]_vars

\* A persisted manifest whose updated_at_s lies before its created_at_s.
C22_Witness ==
    /\ ~IsNone(disk)
    /\ IsComplete(Val(disk))
    /\ Val(Val(disk).updated_at_s) < Val(Val(disk).created_at_s)

----------------------------------------------------------------------------
(* Atomic persistence: C25 *)

\* C25: at every instant, also in the middle of a persist and after one that
\* failed, the manifest path holds no file or the complete document of a
\* manifest state handed to a persist before, never a part of a document.
C25_AtomicPersistence ==
    \/ IsNone(disk)
    \/ /\ IsComplete(Val(disk))
       /\ Val(disk) \in Handed

\* write_json failed after it had opened the path: the call is over and the
\* path holds a partial document, where a complete one had been before.
C25_Witness ==
    /\ aw.pc = "idle"
    /\ ~IsNone(aw.error)
    /\ ~IsNone(disk)
    /\ ~IsComplete(Val(disk))
    /\ Cardinality(Handed) = 2

----------------------------------------------------------------------------
(* C23: a manifest built with ensure_step, start, finish and artifact      *)
(* assignment, written to JSON and read back, is identical in version, run *)
(* id, step names, statuses, durations (an absent duration included),      *)
(* attempts, errors and artifact refs.                                     *)

ReadBack == ~IsNone(callOut) /\ ~Val(callOut).raised

Loaded == Val(Val(callOut).manifest)

\* Everything the claim lists except the step durations.
SameButDurations ==
    /\ Loaded.version = manifest.version
    /\ Loaded.run_id = manifest.run_id
    /\ DOMAIN Loaded.steps = DOMAIN manifest.steps
    /\ \A n \in DOMAIN manifest.steps :
          /\ Loaded.steps[n].status = manifest.steps[n].status
          /\ Loaded.steps[n].attempts = manifest.steps[n].attempts
          /\ Loaded.steps[n].error = manifest.steps[n].error
          /\ Loaded.steps[n].error_type = manifest.steps[n].error_type
    /\ Loaded.errors = manifest.errors
    /\ Loaded.artifacts = manifest.artifacts

\* A record whose duration is absent although both timestamps are stored.
DurationMissing(r) ==
    IsNone(r.duration_ms) /\ ~IsNone(r.started_at_s) /\ ~IsNone(r.ended_at_s)

\* ms is max(0, round((ended_at_s - started_at_s) * 1000)): times count half
\* milliseconds, so ms is the whole number nearest to half their difference,
\* the even one of two equally near, and 0 when the difference is not positive.
IsElapsedMs(ms, r) ==
    LET d == Val(r.ended_at_s) - Val(r.started_at_s)
    IN  IF d <= 0 THEN ms = 0
        ELSE /\ 2 * ms - d \in {-1, 0, 1}
             /\ (2 * ms # d => ms % 2 = 0)

\* C23 as stated: the read manifest has the written manifest's fields, every
\* duration included.
C23_RoundTripIdentical ==
    ReadBack =>
        /\ SameButDurations
        /\ \A n \in DOMAIN manifest.steps :
              Loaded.steps[n].duration_ms = manifest.steps[n].duration_ms

\* C23 amended: the read manifest has the written manifest's fields, except
\* that a duration absent while both timestamps are stored comes back as
\* max(0, round((ended_at_s - started_at_s) * 1000)).
C23_RoundTripUpToDuration ==
    ReadBack =>
        /\ SameButDurations
        /\ \A n \in DOMAIN manifest.steps :
              IF DurationMissing(manifest.steps[n])
              THEN /\ ~IsNone(Loaded.steps[n].duration_ms)
                   /\ IsElapsedMs(Val(Loaded.steps[n].duration_ms), manifest.steps[n])
              ELSE Loaded.steps[n].duration_ms = manifest.steps[n].duration_ms

C23_Witness ==
    /\ ReadBack
    /\ "normalize" \in DOMAIN manifest.steps
    /\ DurationMissing(manifest.steps["normalize"])
    /\ manifest.steps["normalize"].started_at_s = Some(0)
    /\ manifest.steps["normalize"].ended_at_s = Some(3)
    /\ Loaded.steps["normalize"].duration_ms = Some(2)
    /\ Loaded.steps["normalize"].attempts = 1
    /\ Loaded.artifacts.normalized_audio_path = Some("normalized.wav")

----------------------------------------------------------------------------
(* C24: after any sequence of start() and finish() calls, whatever the     *)
(* clock readings, duration_ms is absent or at least 0, and right after    *)
(* finish() it is max(0, round((ended_at_s - started_at_s) * 1000)).       *)

FinishStep ==
    \E status \in StepStatus, at \in 0..MaxAt, error \in RecErrors :
        RecFinish(status, at, error)

\* The second half speaks of a record that has a start time; finish() on a
\* record never started leaves the duration absent.
C24_Step ==
    /\ IsNone(rec'.duration_ms) \/ Val(rec'.duration_ms) >= 0
    /\ FinishStep =>
          IF IsNone(rec.started_at_s)
          THEN IsNone(rec'.duration_ms)
          ELSE /\ ~IsNone(rec'.duration_ms)
               /\ IsElapsedMs(Val(rec'.duration_ms), rec')

----------------------------------------------------------------------------
(* C26: after every successful run the manifest has an export_docx record: *)
(* skipped when document export is not enabled, success with               *)
(* minutes_docx_path and minutes_docx_sha256 recorded when it is.          *)

ExportDocxRecorded(m) ==
    /\ "export_docx" \in DOMAIN m.steps
    /\ \/ m.steps["export_docx"].status = "skipped"
       \/ /\ m.steps["export_docx"].status = "success"
          /\ ~IsNone(m.artifacts.minutes_docx_path)
          /\ ~IsNone(m.artifacts.minutes_docx_sha256)

C26_ExportDocxStep ==
    pc = "returned" => ExportDocxRecorded(manifest)

\* run() has returned with write_outputs successful and no export_docx record.
C26_Witness ==
    /\ pc = "returned"
    /\ "write_outputs" \in DOMAIN manifest.steps
    /\ manifest.steps["write_outputs"].status = "success"
    /\ "export_docx" \notin DOMAIN manifest.steps

----------------------------------------------------------------------------
(* C27: from_dict raises a contract error whenever the stored shape cannot *)
(* be mapped onto the model (unknown fields in artifacts or in a step      *)
(* record, a steps or artifacts value of the wrong type, a status outside  *)
(* the four), lets no other error kind escape and never returns a manifest *)
(* that violates the model.                                                *)

HasStepEntry(t) == t.top = "dict" /\ t.steps = "dict"

\* The shapes the claim calls unmappable.
Unmappable(t) ==
    \/ t.top # "dict"
    \/ t.artifacts \in {"unknown_field", "list", "empty_list", "num"}
    \/ t.steps \in {"list", "str", "zero"}
    \/ HasStepEntry(t) /\ t.step \in {"unknown_field", "bad_status", "str", "null"}
    \/ t.warnings = "num"

C27_ContractErrorOnBadShape ==
    (~IsNone(callOut) /\ Val(callIn).fn = "from_dict") =>
        /\ Unmappable(Val(callIn).args) => CallRaised("from_dict", "ContractError")
        /\ Val(callOut).raised => CallRaised("from_dict", "ContractError")
        /\ ~Val(callOut).raised =>
              \A n \in DOMAIN Loaded.steps : Loaded.steps[n].status \in StepStatus

\* A steps value that is a list: an AttributeError has escaped.
C27_Witness ==
    /\ CallRaised("from_dict", "AttributeError")
    /\ Val(callIn).args.top = "dict"
    /\ Val(callIn).args.steps = "list"

----------------------------------------------------------------------------
(* C28: chunk_audio returns only if the chunker left at least one file and *)
(* the files are exactly chunk_0000.wav .. chunk_(n-1).wav; the returned   *)
(* chunk set lists them in that order with count = length = n.  An empty   *)
(* result, an unexpected file name, a gap or a first index other than 0    *)
(* raise a chunking error.                                                 *)

ProducedFiles == {e.name : e \in {x \in Val(callIn).args.entries : x.is_file}}

ExpectedChunkNames(n) == {ChunkFileName(i) : i \in 0..(n - 1)}

WellNumbered(files) ==
    files # {} /\ files = ExpectedChunkNames(Cardinality(files))

\* The call gets as far as collecting the chunker's files.
ReachesCollect ==
    LET a == Val(callIn).args
    IN  a.chunk_seconds > 0 /\ a.audio = "file" /\ a.out_dir_empty /\ a.ffmpeg = "ok"

C28_ChunkSetWellFormed ==
    (~IsNone(callOut) /\ Val(callIn).fn = "chunk_audio") =>
        /\ CallReturned("chunk_audio") =>
              LET n == Cardinality(ProducedFiles)
                  c == Val(Val(callOut).artifact)
              IN  /\ WellNumbered(ProducedFiles)
                  /\ c.chunk_paths = [k \in 1..n |-> ChunkFileName(k - 1)]
                  /\ c.count = n
                  /\ Len(c.chunk_paths) = n
        /\ (ReachesCollect /\ ~WellNumbered(ProducedFiles)) =>
              CallRaised("chunk_audio", "ChunkingError")

\* A single file whose four digits are not ASCII digits: chunk_audio returns.
C28_Witness ==
    /\ CallReturned("chunk_audio")
    /\ Cardinality(ProducedFiles) = 1
    /\ ~WellNumbered(ProducedFiles)
    /\ Val(Val(callOut).artifact).count = 1

----------------------------------------------------------------------------
(* C29: within one attempt a record's status leaves pending at most once,  *)
(* and success is final: no path of run() turns a record that has reached  *)
(* success into failed, a failing manifest write in the finish phase of    *)
(* the step included.                                                      *)

SameAttempt(n) ==
    /\ runNo' = runNo
    /\ n \in DOMAIN manifest'.steps
    /\ manifest'.steps[n].attempts = manifest.steps[n].attempts

C29_Step ==
    \A n \in DOMAIN manifest.steps :
        (manifest.steps[n].status # "pending" /\ SameAttempt(n)) =>
            manifest'.steps[n].status = manifest.steps[n].status

C29_SuccessIsFinal == [][C29_Step]_vars

\* The record of a step was success when the write failed and is failed now.
C29_Witness ==
    /\ pc = "raised"
    /\ ~IsNone(exc)
    /\ Val(exc) = ManifestWriteError
    /\ manifest.steps[StepName].status = "failed"
    /\ manifest.steps[StepName].attempts = 1

----------------------------------------------------------------------------
(* C30: artifact refs are merged only by successful steps: when a step     *)
(* fails, the artifact refs and the top-level input hash, in memory and as *)
(* persisted, are what they were when the step started.                    *)

RefsKept ==
    /\ manifest'.artifacts = manifest.artifacts
    /\ manifest'.input_sha256 = manifest.input_sha256

\* The body of a step on its way to failure keeps the refs, and fail_step
\* keeps them and persists them as they are.
C30_Step ==
    /\ (pc \in {"exec", "adapter"} /\ pc' \in {"adapter", "fail"}) => RefsKept
    /\ pc = "fail" =>
          /\ RefsKept
          /\ ~IsNone(disk')
          /\ Val(disk').artifacts = manifest.artifacts
          /\ Val(disk').input_sha256 = manifest.input_sha256

C30_RefsOnlyOnSuccess == [][C30_Step]_vars

\* write_outputs failed after the transcript was written: transcript_path is
\* set in memory and on disk.
C30_Witness ==
    /\ pc = "raised"
    /\ StepName = "write_outputs"
    /\ manifest.steps["write_outputs"].status = "failed"
    /\ manifest.artifacts.transcript_path = Some("transcript.txt")
    /\ IsNone(manifest.artifacts.minutes_md_path)
    /\ Val(disk).artifacts.transcript_path = Some("transcript.txt")

----------------------------------------------------------------------------
(* C31: after any sequence of start() and finish() calls, a StepRecord     *)
(* carries an error value or an error_type only when its status is failed. *)

C31_ErrorOnlyWhenFailed ==
    (~IsNone(rec.error) \/ ~IsNone(rec.error_type)) => rec.status = "failed"

\* A record that failed and was started again: pending, with the error of
\* the failed attempt.
C31_Witness ==
    /\ rec.status = "pending"
    /\ rec.attempts = 2
    /\ rec.error = Some("boom")
    /\ rec.error_type = Some("RuntimeError")

----------------------------------------------------------------------------
(* C32: the attempt counter of a step record is the number of start()      *)
(* calls made on it: start() adds exactly one, finish() and ensure_step()  *)
(* never change it, so every record one run() produces has attempts = 1.   *)

\* The number of start_step calls the current run made for step n.
StartsOfStep(n) == Cardinality({i \in 1..Len(started) : started[i] = n})

C32_State ==
    \A n \in DOMAIN manifest.steps :
        /\ manifest.steps[n].attempts = StartsOfStep(n)
        /\ manifest.steps[n].attempts = 1

\* Within a run, a step that is no start_step leaves every counter as it is,
\* and start_step gives the record it starts one attempt more than
\* ensure_step's new record has.
C32_Step ==
    runNo' = runNo =>
        /\ \A n \in DOMAIN manifest.steps :
              /\ n \in DOMAIN manifest'.steps
              /\ manifest'.steps[n].attempts = manifest.steps[n].attempts
        /\ \A n \in DOMAIN manifest'.steps \ DOMAIN manifest.steps :
              /\ started' = Append(started, n)
              /\ manifest'.steps[n].attempts = NewStepRecord(n).attempts + 1

----------------------------------------------------------------------------
(* C33: whenever the process is killed, manifest.json reflects the last    *)
(* fully completed step: every manifest run() has persisted holds records  *)
(* only of steps that have finished, each success or failed, never a       *)
(* pending record of a step that was started and not finished.             *)

Terminal(r) == r.status \in {"success", "failed"} /\ ~IsNone(r.ended_at_s)

\* What manifest.json holds is terminal, and what it holds of the current
\* run is what the run has in memory for those steps.
C33_PersistedIsTerminal ==
    ~IsNone(disk) =>
        /\ \A n \in DOMAIN Val(disk).steps : Terminal(Val(disk).steps[n])
        /\ Val(disk).run_id = Some(runNo) =>
              \A n \in DOMAIN Val(disk).steps :
                  /\ n \in DOMAIN manifest.steps
                  /\ Val(disk).steps[n].status = manifest.steps[n].status

\* The generate step is in flight, pending in memory, and manifest.json
\* shows the four steps before it and nothing of generate.
C33_Witness ==
    /\ pc = "exec"
    /\ StepName = "generate"
    /\ manifest.steps["generate"].status = "pending"
    /\ ~IsNone(disk)
    /\ Val(disk).run_id = Some(runNo)
    /\ DOMAIN Val(disk).steps = {"validate", "normalize", "chunk", "transcribe"}

----------------------------------------------------------------------------
(* C34: a chunk that contributes text but no segments gets exactly one     *)
(* whole-chunk segment, with the chunk's text, no start and no end, the    *)
(* chunk's index as chunk_index and the next global index; a chunk that    *)
(* contributes segments gets no synthesized segment.                       *)

\* The number of stitched segments of the chunks before chunk i.
StitchedBefore(i) ==
    Cardinality({k \in 1..Len(StitchedSegments) :
                    Val(StitchedSegments[k].chunk_index) < i})

C34_SynthesizedSegment ==
    StitchReturned =>
        \A i \in 0..(Val(stitchIn).count - 1) :
            LET raw == RawKept(i)
                out == StitchedOf(i)
            IN  IF raw = <<>>
                THEN /\ Len(out) = 1
                     /\ out[1].text = Strip(Val(stitchIn).responses[i + 1].text)
                     /\ out[1].text # <<>>
                     /\ IsNone(out[1].start_s)
                     /\ IsNone(out[1].end_s)
                     /\ out[1].chunk_index = Some(i)
                     /\ out[1].index = StitchedBefore(i)
                ELSE /\ Len(out) = Len(raw)
                     /\ \A k \in 1..Len(raw) : out[k].text = Strip(raw[k].text)

\* Chunk 0 contributes a timed segment and text, chunk 1 only text: the
\* stitched segments are chunk 0's own and one synthesized for chunk 1.
C34_Witness ==
    /\ StitchReturned
    /\ Val(stitchIn).count = 2
    /\ Len(RawKept(0)) = 1
    /\ Strip(Val(stitchIn).responses[1].text) # <<>>
    /\ RawKept(1) = <<>>
    /\ Len(StitchedSegments) = 2
    /\ StitchedSegments[2].index = 1
    /\ StitchedSegments[2].chunk_index = Some(1)
    /\ IsNone(StitchedSegments[2].start_s)

----------------------------------------------------------------------------
(* C35: a language the caller pinned is the stitched transcript's          *)
(* language whatever the chunks report; otherwise the language is the      *)
(* non-empty one reported by the lowest-indexed chunk that reports one,    *)
(* and absent if no chunk reports one; a later chunk never overrides an    *)
(* earlier selection.                                                      *)

\* The chunks whose answer reports a language that is not blank.
Reporting ==
    {k \in 1..Len(Val(stitchIn).responses) :
        Strip(Val(stitchIn).responses[k].language) # <<>>}

FirstReported == Some(Strip(Val(stitchIn).responses[SetMin(Reporting)].language))

\* The claim as stated, a pinned language being one that is not empty (the
\* adapter sends the language to the provider only then, lines 219-220).
C35_LanguageSelection ==
    StitchReturned =>
        IF Val(stitchIn).language \notin {None, Some(<<>>)}
        THEN StitchedTranscript.language = Val(stitchIn).language
        ELSE IF Reporting # {}
        THEN StitchedTranscript.language = FirstReported
        ELSE IsNone(StitchedTranscript.language)

\* The same, except that with no chunk reporting a language the transcript
\* carries what the adapter was built with: None, or the empty string.
C35_LanguageSelectionNonEmpty ==
    StitchReturned =>
        IF Val(stitchIn).language \notin {None, Some(<<>>)}
        THEN StitchedTranscript.language = Val(stitchIn).language
        ELSE IF Reporting # {}
        THEN StitchedTranscript.language = FirstReported
        ELSE StitchedTranscript.language = Val(stitchIn).language

\* Nothing pinned, chunk 0 reports "en" and chunk 1 " fr ": the transcript's
\* language is "en".
C35_Witness ==
    /\ StitchReturned
    /\ IsNone(Val(stitchIn).language)
    /\ Val(stitchIn).count = 2
    /\ Val(stitchIn).responses[1].language = <<"en">>
    /\ Val(stitchIn).responses[2].language = <<" ", "fr", " ">>
    /\ StitchedTranscript.language = Some(<<"en">>)

----------------------------------------------------------------------------
(* C36: in every reachable state of run() the manifest's step records form *)
(* a prefix of the fixed step order in which all records but the last are  *)
(* success, the last is pending (while the step is in flight), success or  *)
(* failed, at most one record is failed, and no record is skipped.         *)

C36_RecordsFormPrefix ==
    LET k == Cardinality(Recorded(manifest))
    IN  /\ Recorded(manifest) = {StepOrder[j] : j \in 1..k}
        /\ \A j \in 1..(k - 1) : StatusOf(manifest, StepOrder[j]) = "success"
        /\ k > 0 =>
              /\ StatusOf(manifest, StepOrder[k]) \in {"pending", "success", "failed"}
              /\ StatusOf(manifest, StepOrder[k]) = "pending" => (Running /\ cur = k)
        /\ Cardinality({n \in Recorded(manifest) : StatusOf(manifest, n) = "failed"}) <= 1
        /\ \A n \in Recorded(manifest) : StatusOf(manifest, n) # "skipped"

\* The chunk step failed: validate and normalize are success before it and
\* nothing follows it.
C36_Witness ==
    /\ pc = "raised"
    /\ Recorded(manifest) = {"validate", "normalize", "chunk"}
    /\ StatusOf(manifest, "validate") = "success"
    /\ StatusOf(manifest, "normalize") = "success"
    /\ StatusOf(manifest, "chunk") = "failed"

----------------------------------------------------------------------------
(* C37: every run() starts from a new manifest and never reads the one on  *)
(* disk.  Once a run has persisted, manifest.json holds no step record,    *)
(* attempt count, artifact ref or error line of an earlier run: its        *)
(* records are those of steps this run started, each at its first attempt, *)
(* its refs are those of steps this run executed, its error line is the    *)
(* one of the step this run failed at, and created_at_s is this run's.     *)

\* The current run() has persisted its manifest at least once.
HasPersisted == runNo >= 1 /\ (cur > 1 \/ pc \in {"returned", "raised"})

C37_FreshManifestOnDisk ==
    HasPersisted =>
        LET d == Val(disk)
            Producer(n) ==
                IF n \in {"input_path", "input_sha256"} THEN "validate"
                ELSE IF n \in {"normalized_audio_path", "normalized_audio_sha256"}
                THEN "normalize"
                ELSE IF n \in {"chunks_dir", "chunk_paths", "chunk_seconds"} THEN "chunk"
                ELSE IF n \in {"transcript_text", "transcript_provider", "transcript_model",
                               "transcript_language", "transcript_chunk_count",
                               "transcript_duration_s"}
                THEN "transcribe"
                ELSE IF n \in {"minutes_markdown", "minutes_model", "minutes_prompt_version",
                               "minutes_prompt_path", "minutes_prompt_hash"}
                THEN "generate"
                ELSE "write_outputs"
        IN  /\ ~IsNone(disk)
            /\ d.run_id = Some(runNo)
            /\ \A n \in Recorded(d) :
                  /\ Contains(started, n)
                  /\ d.steps[n].attempts = 1
                  /\ d.steps[n].started_at_s = d.created_at_s
            /\ \A n \in ArtifactRefNames :
                  d.artifacts[n] # <<>> => Producer(n) \in execRun
            /\ ~IsNone(d.input_sha256) => "validate" \in execRun
            /\ IF pc = "raised"
               THEN /\ Len(d.errors) = 1
                    /\ d.errors[1][1] = StepOrder[cur]
               ELSE d.errors = <<>>

\* The first run reached write_outputs and the second one failed at
\* normalize at a later clock reading: manifest.json shows validate and
\* normalize only, no ref after the input's, one error line, and the second
\* run's creation time.
C37_Witness ==
    /\ runNo = 2
    /\ pc = "raised"
    /\ {"validate", "normalize", "chunk", "transcribe", "generate"} \subseteq doneAtInvoke
    /\ Recorded(Val(disk)) = {"validate", "normalize"}
    /\ StatusOf(Val(disk), "normalize") = "failed"
    /\ IsNone(Val(disk).artifacts["chunks_dir"])
    /\ IsNone(Val(disk).artifacts["transcript_text"])
    /\ Len(Val(disk).errors) = 1
    /\ Val(disk).created_at_s = Some(clock)
    /\ clock > 0

----------------------------------------------------------------------------
(* C38: run() always terminates, provided every collaborator call returns  *)
(* or raises.  It ends either with all six steps success and the manifest  *)
(* returned, or with exactly one failed step and an exception; and within  *)
(* the transcribe step at most N * (max_retries + 1) provider calls are    *)
(* made for N chunks.                                                      *)

Failed(m) == {n \in Recorded(m) : StatusOf(m, n) = "failed"}

C38_Outcome ==
    /\ pc = "returned" =>
          /\ Recorded(manifest) = StepNames
          /\ \A n \in StepNames : StatusOf(manifest, n) = "success"
          /\ IsNone(raised)
    /\ pc = "raised" =>
          /\ Cardinality(Failed(manifest)) = 1
          /\ ~IsNone(raised)

C38_CallBound ==
    ~IsNone(chunks) => calls["transcribe"] <= Val(chunks) * (Retries + 1)

C38_Terminates ==
    /\ []C38_Outcome
    /\ []C38_CallBound
    /\ Running ~> (pc \in {"returned", "raised"})

\* Each of two chunks failed once and succeeded at its second and last
\* attempt: the bound of four calls is met and the run returned.
C38_Witness ==
    /\ pc = "returned"
    /\ Val(chunks) = 2
    /\ Retries = 1
    /\ calls["transcribe"] = 4
    /\ Failed(manifest) = {}

----------------------------------------------------------------------------
(* C39: chunk_audio requires an initially empty output directory.  When    *)
(* the chunk directory holds an entry, the chunk step raises ChunkingError *)
(* without invoking the chunker and leaves the directory as it is; so a    *)
(* run() on an output directory where the chunk step of the run before     *)
(* succeeded fails at the chunk step.                                      *)

C39_Step ==
    (pc = "exec" /\ StepName = "chunk" /\ fsChunks > 0) =>
        /\ pc' = "fail"
        /\ Val(exc').type = "ChunkingError"
        /\ calls'["chunk"] = calls["chunk"]
        /\ fsChunks' = fsChunks
        /\ chunks' = chunks
        /\ manifest' = manifest

C39_State ==
    (runNo >= 2 /\ "chunk" \in doneAtInvoke) =>
        /\ fsChunks > 0
        /\ calls["chunk"] = 0
        /\ IsNone(chunks)
        /\ pc # "returned"
        /\ cur <= Index("chunk")
        /\ "chunk" \in Recorded(manifest) => StatusOf(manifest, "chunk") # "success"
        /\ (pc = "raised" /\ cur = Index("chunk")) =>
              /\ StatusOf(manifest, "chunk") = "failed"
              /\ manifest.steps["chunk"].error_type = Some("ChunkingError")

====
